---- MODULE Spec2Model ----
(***************************************************************************)
(* TinyG G-code parser (firmware/tinyg_330.19/gcode_parser.c).             *)
(*                                                                         *)
(* A block is a NUL-terminated character buffer, modelled as a sequence of *)
(* one-character strings whose last element is NUL.  C index i is element  *)
(* i+1 of the sequence.  Numbers (double in the source) are fixed-point    *)
(* integers counting hundredths, so that 61.1 is 6110 and one inch is      *)
(* 2540 hundredths of a millimetre.                                        *)
(***************************************************************************)
EXTENDS Integers, Sequences, FiniteSets, TLC

VARIABLES
    block,      \* the line buffer as gc_gcode_parser left it (destructive)
    line,       \* the same buffer as the caller handed it in
    gn,         \* next-block model values
    gf,         \* next-block model flags
    cm,         \* canonical machine model
    status,     \* return value of the last gc_gcode_parser call
    parsed,     \* status that ended statement extraction ("none" if not run)
    calls,      \* canonical-machine primitives invoked by the last call
    msgs,       \* cm_message texts sent by the last call
    pc,         \* main.c: call stack of main(), innermost frame last
    trace,      \* main.c: the calls made so far, in order
    sreg_I,     \* main.c: global interrupt enable flag (cli clears, sei sets)
    defines,    \* main.c: the preprocessor symbols the build defines
    mp,         \* motion planner: the ring of planner blocks
    sg,         \* segment generator: the block it runs and its progress
    se,         \* step executor: the segment queue and what the ISR drained
    norm        \* _gc_normalize_gcode_block: its position and local variables

mainvars == <<pc, trace, sreg_I, defines>>

motionvars == <<mp, sg, se>>

vars == <<block, line, gn, gf, cm, status, parsed, calls, msgs,
          pc, trace, sreg_I, defines, mp, sg, se, norm>>

-----------------------------------------------------------------------------
(* Characters *)

NUL == "NUL"
DEL == "DEL"
TAB == "TAB"

UpperSeq == <<"A","B","C","D","E","F","G","H","I","J","K","L","M",
              "N","O","P","Q","R","S","T","U","V","W","X","Y","Z">>
LowerSeq == <<"a","b","c","d","e","f","g","h","i","j","k","l","m",
              "n","o","p","q","r","s","t","u","v","w","x","y","z">>
DigitSeq == <<"0","1","2","3","4","5","6","7","8","9">>

Upper == {UpperSeq[k] : k \in DOMAIN UpperSeq}
Lower == {LowerSeq[k] : k \in DOMAIN LowerSeq}
Digit == {DigitSeq[k] : k \in DOMAIN DigitSeq}

UpperOf == [c \in Lower |-> UpperSeq[CHOOSE k \in DOMAIN LowerSeq : LowerSeq[k] = c]]
DigitVal == [c \in Digit |-> (CHOOSE k \in DOMAIN DigitSeq : DigitSeq[k] = c) - 1]

toupper(c) == IF c \in Lower THEN UpperOf[c] ELSE c
isupper(c) == c \in Upper
isdigit(c) == c \in Digit

\* c <= ' ' : the space and the control characters of the model's alphabet
IsCtrlOrSpace(c) == c \in {" ", TAB}

\* the string literal handed to strchr, gcode_parser.c line 157
InvalidPunct == {"!", "$", "%", ",", ";", ":", "?", "@", "^", "_", "~", "`", "'", "\""}

\* With(v, F) is F(v) with v evaluated once
Only(S) == CHOOSE x \in S : TRUE
With(v, F(_)) == Only({F(x) : x \in {v}})

\* C buffer accessors: 0-based index into the sequence
At(buf, i) == buf[i + 1]
Put(buf, i, c) == [buf EXCEPT ![i + 1] = c]

\* the C string starting at index i, without its terminator
RECURSIVE CStr(_, _)
CStr(buf, i) == IF At(buf, i) = NUL THEN <<>> ELSE <<At(buf, i)>> \o CStr(buf, i + 1)

-----------------------------------------------------------------------------
(* _gc_normalize_gcode_block *)

\* The while loop of lines 145-160 runs on a loop state
\* [buf, i, j, comment, stop]: i and j are the read and write indices,
\* comment is the index after the opening parenthesis (-1 when none was
\* met) and stop tells that the loop has been left.
\* i and j are uint8_t (lines 134-135): ++ wraps from 255 to 0.
Uint8Range == 256

Inc8(k) == (k + 1) % Uint8Range

NormChar(s) == toupper(At(s.buf, s.i))
\* a variant whose write index runs ahead: j is advanced twice
NormKeep_twice(s) ==
    [s EXCEPT !.buf = Put(@, s.j, NormChar(s)), !.i = Inc8(@), !.j = Inc8(Inc8(@))]

NormKeep(s) == [s EXCEPT !.buf = Put(@, s.j, NormChar(s)), !.i = Inc8(@), !.j = Inc8(@)]
NormToss(s) == [s EXCEPT !.i = Inc8(@)]

\* one evaluation of the loop condition and body
NormStep(s) ==
    IF s.stop THEN s
    ELSE IF NormChar(s) = NUL THEN [s EXCEPT !.i = Inc8(@), !.stop = TRUE]
    ELSE IF isupper(NormChar(s)) \/ isdigit(NormChar(s)) THEN NormKeep(s)
    ELSE IF NormChar(s) = "("
         THEN [s EXCEPT !.buf = Put(@, s.j, NUL), !.i = Inc8(@),
                        !.comment = Inc8(s.i), !.stop = TRUE]
    ELSE IF IsCtrlOrSpace(NormChar(s)) THEN NormToss(s)
    ELSE IF NormChar(s) = DEL THEN NormToss(s)
    ELSE IF NormChar(s) \in InvalidPunct THEN NormToss(s)
    ELSE NormKeep(s)

\* n iterations from state s (a value at every call)
RECURSIVE NormRun(_, _)
NormRun(s, n) ==
    IF n = 0 THEN s
    ELSE IF n = 1 THEN NormStep(s)
    ELSE With(NormRun(s, n \div 2), LAMBDA t : NormRun(t, n - (n \div 2)))

\* the loop runs until it meets the terminator or a parenthesis, which
\* takes at most one iteration per character of the buffer
NormLoop(buf) ==
    With([buf |-> buf, i |-> 0, j |-> 0, comment |-> -1, stop |-> FALSE],
         LAMBDA s : NormRun(s, Len(buf)))

IsMsg_exact(buf, k) ==
    /\ At(buf, k) = "M"
    /\ At(buf, k + 1) = "S"
    /\ At(buf, k + 2) = "G"

\* lines 163-165: the comment starts with MSG in any letter case
IsMsg(buf, k) ==
    /\ toupper(At(buf, k)) = "M"
    /\ toupper(At(buf, k + 1)) = "S"
    /\ toupper(At(buf, k + 2)) = "G"

\* lines 166-172: overwrite the first closing parenthesis with NUL
RECURSIVE CutParen(_, _)
CutParen(buf, k) ==
    IF At(buf, k) = NUL THEN buf
    ELSE IF At(buf, k) = ")" THEN Put(buf, k, NUL)
    ELSE CutParen(buf, k + 1)

\* Returns the buffer, the messages sent and whether the line counted.
gc_normalize_gcode_block(buf) ==
    IF At(buf, 0) = "/" THEN
        [buf |-> Put(buf, 0, NUL), msgs |-> <<>>, counted |-> FALSE]
    ELSE IF At(buf, 0) = "?" THEN
        [buf |-> buf, msgs |-> <<>>, counted |-> FALSE]
    ELSE
        With(NormLoop(buf), LAMBDA r :
            With(Put(r.buf, r.j, NUL), LAMBDA b1 :
                IF r.comment # -1 /\ IsMsg(b1, r.comment)
                THEN With(CutParen(b1, r.comment), LAMBDA b2 :
                        [buf |-> b2, msgs |-> <<CStr(b2, r.comment + 3)>>, counted |-> TRUE])
                ELSE [buf |-> b1, msgs |-> <<>>, counted |-> TRUE]))

\* The function is not running.
NormIdle == [pc |-> "idle", i |-> 0, j |-> 0, comment |-> -1]

-----------------------------------------------------------------------------
(* Numbers and statement extraction *)

\* fixed-point scale: hundredths
Scale == 100

\* trunc(): towards zero, to a whole number of units
trunc(v) == IF v >= 0 THEN (v \div Scale) * Scale ELSE -(((-v) \div Scale) * Scale)

\* the (uint8_t) cast of a double: truncation towards zero.  The bounded
\* inputs keep every cast value inside 0..255, where the cast is defined.
Uint8(v) == (trunc(v) \div Scale) % 256

\* digits from index i on: the index after them, their number and value
RECURSIVE ScanDigits(_, _, _, _)
ScanDigits(buf, i, n, v) ==
    IF isdigit(At(buf, i))
    THEN With(v * 10 + DigitVal[At(buf, i)], LAMBDA w : ScanDigits(buf, i + 1, n + 1, w))
    ELSE [i |-> i, n |-> n, v |-> v]

\* fraction digits: the first two count (tenths, hundredths), the rest are
\* below the fixed-point resolution
RECURSIVE ScanFrac(_, _, _, _)
ScanFrac(buf, i, n, v) ==
    IF isdigit(At(buf, i))
    THEN With(v + (IF n = 0 THEN 10 * DigitVal[At(buf, i)]
                   ELSE IF n = 1 THEN DigitVal[At(buf, i)] ELSE 0),
              LAMBDA w : ScanFrac(buf, i + 1, n + 1, w))
    ELSE [i |-> i, n |-> n, v |-> v]

\* read_double (util.c): a signed decimal at index i; fails when no digit
\* was consumed, otherwise leaves the index after the number.
read_double(buf, i) ==
    With(IF At(buf, i) \in {"+", "-"} THEN i + 1 ELSE i, LAMBDA i1 :
    With(ScanDigits(buf, i1, 0, 0), LAMBDA ip :
    With(IF At(buf, ip.i) = "." THEN ScanFrac(buf, ip.i + 1, 0, 0)
         ELSE [i |-> ip.i, n |-> 0, v |-> 0], LAMBDA fp :
        IF ip.n + fp.n = 0
        THEN [ok |-> FALSE, i |-> i, value |-> 0]
        ELSE [ok |-> TRUE, i |-> fp.i,
              value |-> (IF At(buf, i) = "-" THEN -1 ELSE 1) * (ip.v * Scale + fp.v)])))

\* buf and i are values here; see StatementLoop
get_next_statement(buf, i) ==
    IF At(buf, i) = NUL THEN
        [status |-> "TG_COMPLETE", letter |-> NUL, value |-> 0, fraction |-> 0, i |-> i]
    ELSE IF ~isupper(At(buf, i)) THEN
        [status |-> "TG_EXPECTED_COMMAND_LETTER", letter |-> At(buf, i),
         value |-> 0, fraction |-> 0, i |-> i]
    ELSE
        With(read_double(buf, i + 1), LAMBDA r :
            IF ~r.ok THEN
                [status |-> "TG_BAD_NUMBER_FORMAT", letter |-> At(buf, i),
                 value |-> 0, fraction |-> 0, i |-> i + 1]
            ELSE
                [status |-> "TG_OK", letter |-> At(buf, i), value |-> r.value,
                 fraction |-> r.value - trunc(r.value), i |-> r.i])

-----------------------------------------------------------------------------
(* gn / gf: struct GCodeModel *)

AxisSeq == <<"X", "Y", "Z", "A", "B", "C">>
Axes == {AxisSeq[k] : k \in DOMAIN AxisSeq}

\* the value a memset to zero leaves in an enum field
ZeroEnum == "ENUM_0"

ZERO_MODEL_STATE_gn ==
    [next_action |-> ZeroEnum, motion_mode |-> ZeroEnum, select_plane |-> ZeroEnum,
     path_control |-> ZeroEnum, program_flow |-> ZeroEnum, spindle_mode |-> ZeroEnum,
     inches_mode |-> 0, absolute_mode |-> 0, absolute_override |-> 0,
     set_origin_mode |-> 0, inverse_feed_rate_mode |-> 0, change_tool |-> 0,
     tool |-> 0, feed_rate |-> 0, dwell_time |-> 0, spindle_speed |-> 0,
     arc_radius |-> 0,
     target |-> [a \in Axes |-> 0], arc_offset |-> [k \in 0..2 |-> 0]]

ZERO_MODEL_STATE_gf ==
    [next_action |-> 0, motion_mode |-> 0, select_plane |-> 0,
     path_control |-> 0, program_flow |-> 0, spindle_mode |-> 0,
     inches_mode |-> 0, absolute_mode |-> 0, absolute_override |-> 0,
     set_origin_mode |-> 0, inverse_feed_rate_mode |-> 0, change_tool |-> 0,
     tool |-> 0, feed_rate |-> 0, dwell_time |-> 0, spindle_speed |-> 0,
     arc_radius |-> 0,
     target |-> [a \in Axes |-> 0], arc_offset |-> [k \in 0..2 |-> 0]]

\* The macros act on a parse state s = [gn, gf, cm, status, i, brk], where
\* brk records a break that leaves the statement loop.
SET_NEXT_STATE(s, a, v) == [s EXCEPT !.gn[a] = v, !.gf[a] = 1]
SET_NEXT_TARGET(s, ax, v) == [s EXCEPT !.gn.target[ax] = v, !.gf.target[ax] = 1]
SET_NEXT_OFFSET(s, k, v) == [s EXCEPT !.gn.arc_offset[k] = v, !.gf.arc_offset[k] = 1]
SET_NEXT_ACTION_MOTION(s, a, v) ==
    [s EXCEPT !.gn[a] = v, !.gf[a] = 1,
              !.gn.next_action = "NEXT_ACTION_MOTION", !.gf.next_action = 1]
SET_NEXT_ACTION_OFFSET(s, a, v) ==
    [s EXCEPT !.gn[a] = v, !.gf[a] = 1,
              !.gn.next_action = "NEXT_ACTION_OFFSET_COORDINATES", !.gf.next_action = 1]

Unrecognized(s) == [s EXCEPT !.status = "TG_UNRECOGNIZED_COMMAND"]

\* switch((uint8_t)value) under case 'G', lines 236-261
GSwitch(s, value) ==
    LET g == Uint8(value) IN
    CASE g = 0  -> SET_NEXT_ACTION_MOTION(s, "motion_mode", "MOTION_MODE_STRAIGHT_TRAVERSE")
      [] g = 1  -> SET_NEXT_ACTION_MOTION(s, "motion_mode", "MOTION_MODE_STRAIGHT_FEED")
      [] g = 2  -> SET_NEXT_ACTION_MOTION(s, "motion_mode", "MOTION_MODE_CW_ARC")
      [] g = 3  -> SET_NEXT_ACTION_MOTION(s, "motion_mode", "MOTION_MODE_CCW_ARC")
      [] g = 4  -> SET_NEXT_STATE(s, "next_action", "NEXT_ACTION_DWELL")
      [] g = 17 -> SET_NEXT_STATE(s, "select_plane", "CANON_PLANE_XY")
      [] g = 18 -> SET_NEXT_STATE(s, "select_plane", "CANON_PLANE_XZ")
      [] g = 19 -> SET_NEXT_STATE(s, "select_plane", "CANON_PLANE_YZ")
      [] g = 20 -> SET_NEXT_STATE(s, "inches_mode", 1)
      [] g = 21 -> SET_NEXT_STATE(s, "inches_mode", 0)
      [] g = 28 -> SET_NEXT_STATE(s, "next_action", "NEXT_ACTION_RETURN_TO_HOME")
      [] g = 30 -> SET_NEXT_STATE(s, "next_action", "NEXT_ACTION_HOMING_CYCLE")
      [] g = 53 -> SET_NEXT_STATE(s, "absolute_override", 1)
      [] g = 61 -> SET_NEXT_STATE(s, "path_control", "PATH_EXACT_PATH")
      [] g = 64 -> SET_NEXT_STATE(s, "path_control", "PATH_CONTINUOUS")
      [] g = 80 -> SET_NEXT_STATE(s, "motion_mode", "MOTION_MODE_CANCEL_MOTION_MODE")
      [] g = 90 -> SET_NEXT_STATE(s, "absolute_mode", 1)
      [] g = 91 -> SET_NEXT_STATE(s, "absolute_mode", 0)
      [] g = 92 -> SET_NEXT_ACTION_OFFSET(s, "set_origin_mode", 1)
      [] g = 93 -> SET_NEXT_STATE(s, "inverse_feed_rate_mode", 1)
      [] g = 94 -> SET_NEXT_STATE(s, "inverse_feed_rate_mode", 0)
      [] g = 40 -> s
      [] g = 49 -> s
      [] OTHER  -> Unrecognized(s)

\* switch((uint8_t)value) under case 'M', lines 265-280
MSwitch(s, value) ==
    LET m == Uint8(value) IN
    CASE m \in {0, 1}       -> SET_NEXT_STATE(s, "program_flow", "PROGRAM_FLOW_PAUSED")
      [] m \in {2, 30, 60}  -> SET_NEXT_STATE(s, "program_flow", "PROGRAM_FLOW_COMPLETED")
      [] m = 3  -> SET_NEXT_STATE(s, "spindle_mode", "SPINDLE_CW")
      [] m = 4  -> SET_NEXT_STATE(s, "spindle_mode", "SPINDLE_CCW")
      [] m = 5  -> SET_NEXT_STATE(s, "spindle_mode", "SPINDLE_OFF")
      [] m = 6  -> SET_NEXT_STATE(s, "change_tool", 1)
      [] m \in {7, 8, 9, 48, 49} -> s
      [] OTHER  -> Unrecognized(s)

\* switch(letter), lines 234-302
LetterSwitch(s, letter, value) ==
    CASE letter = "G" -> GSwitch(s, value)
      [] letter = "M" -> MSwitch(s, value)
      [] letter = "T" -> SET_NEXT_STATE(s, "tool", Uint8(value))
      [] letter = "F" -> SET_NEXT_STATE(s, "feed_rate", value)
      [] letter = "P" -> SET_NEXT_STATE(s, "dwell_time", value)
      [] letter = "S" -> SET_NEXT_STATE(s, "spindle_speed", value)
      [] letter \in Axes -> SET_NEXT_TARGET(s, letter, value)
      [] letter = "I" -> SET_NEXT_OFFSET(s, 0, value)
      [] letter = "J" -> SET_NEXT_OFFSET(s, 1, value)
      [] letter = "K" -> SET_NEXT_OFFSET(s, 2, value)
      [] letter = "R" -> SET_NEXT_STATE(s, "arc_radius", value)
      [] letter = "N" -> [s EXCEPT !.cm.linenum = trunc(value) \div Scale]
      [] OTHER -> Unrecognized(s)

\* lines 304-306.  SET_NEXT_STATE ends in a break; here the innermost
\* enclosing statement is the while loop, so the loop is left.
Fraction61(s, letter, value, fraction) ==
    IF letter = "G" /\ Uint8(value) = 61 /\ Uint8(fraction) # 0
    THEN [SET_NEXT_STATE(s, "path_control", "PATH_EXACT_STOP") EXCEPT !.brk = TRUE]
    ELSE s

\* lines 307-309.  The for loop runs on the buffer index i, and the break
\* of SET_NEXT_STATE leaves it in its first iteration with i = 0.
Fraction92(s, letter, value, fraction) ==
    IF letter = "G" /\ Uint8(value) = 92 /\ Uint8(fraction) # 0
    THEN [SET_NEXT_TARGET(s, AxisSeq[1], 0) EXCEPT !.i = 0]
    ELSE s

\* one pass of the loop body, lines 234-309, for statement st
LoopBody(s, st) ==
    Fraction92(Fraction61(LetterSwitch([s EXCEPT !.i = st.i, !.status = "TG_OK"],
                                       st.letter, st.value),
                          st.letter, st.value, st.fraction),
               st.letter, st.value, st.fraction)

\* the statement loop, lines 233-311; s is a value at every call
RECURSIVE StatementLoop(_, _)
StatementLoop(buf, s) ==
    With(get_next_statement(buf, s.i), LAMBDA st :
        IF st.status # "TG_OK" THEN [s EXCEPT !.status = st.status, !.i = st.i]
        ELSE With(LoopBody(s, st), LAMBDA s3 :
                IF s3.brk \/ s3.status # "TG_OK" THEN s3 ELSE StatementLoop(buf, s3)))

-----------------------------------------------------------------------------
(* Canonical machine (canonical_machine.c): the state the parser reads and  *)
(* the primitives it invokes.                                              *)

LinearAxes == {"X", "Y", "Z"}

\* user units to millimetres: linear axes scale by 25.4 in inches mode
to_millimeters(c, ax, v) ==
    IF c.inches_mode = 1 /\ ax \in LinearAxes THEN (v * 254) \div 10 ELSE v

\* millimetres to user units
from_millimeters(c, ax, p) ==
    IF c.inches_mode = 1 /\ ax \in LinearAxes THEN (p * 10) \div 254 ELSE p

cm_get_next_action(c) == c.next_action
cm_get_motion_mode(c) == c.motion_mode
cm_get_absolute_mode(c) == c.absolute_mode
cm_get_position(c, ax) == from_millimeters(c, ax, c.position[ax])
cm_set_absolute_override(c, v) == [c EXCEPT !.absolute_override = v]

\* state after cm_init
cm_init ==
    [position |-> [a \in Axes |-> 0],
     next_action |-> "NEXT_ACTION_NONE",
     motion_mode |-> "MOTION_MODE_CANCEL_MOTION_MODE",
     absolute_mode |-> 1, absolute_override |-> 0, inches_mode |-> 0,
     inverse_feed_rate_mode |-> 0, feed_rate |-> 0, spindle_speed |-> 0,
     tool |-> 0, spindle_mode |-> "SPINDLE_OFF", select_plane |-> "CANON_PLANE_XY",
     program_flow |-> "PROGRAM_FLOW_RUNNING",
     dwell_time |-> 0, linenum |-> 0, linecount |-> 0]

\* the end point of a move to target t (a tuple in AxisSeq order)
MoveTo(c, t) ==
    [a \in Axes |->
        LET k == CHOOSE n \in DOMAIN AxisSeq : AxisSeq[n] = a IN
        IF c.absolute_mode = 1 \/ c.absolute_override = 1
        THEN to_millimeters(c, a, t[k])
        ELSE c.position[a] + to_millimeters(c, a, t[k])]

Motion(c, t, mode) ==
    [c EXCEPT !.position = MoveTo(c, t),
              !.next_action = "NEXT_ACTION_MOTION", !.motion_mode = mode]

\* what primitive f does to the machine when it succeeds; a is the tuple of
\* its arguments
CmEffect(f, a, c) ==
    CASE f = "cm_set_inverse_feed_rate_mode" -> [c EXCEPT !.inverse_feed_rate_mode = a[1]]
      [] f = "cm_set_feed_rate"      -> [c EXCEPT !.feed_rate = to_millimeters(c, "X", a[1])]
      [] f = "cm_set_spindle_speed"  -> [c EXCEPT !.spindle_speed = a[1]]
      [] f = "cm_select_tool"        -> [c EXCEPT !.tool = a[1]]
      [] f = "cm_change_tool"        -> [c EXCEPT !.tool = a[1]]
      [] f = "cm_start_spindle_clockwise"        -> [c EXCEPT !.spindle_mode = "SPINDLE_CW"]
      [] f = "cm_start_spindle_counterclockwise" -> [c EXCEPT !.spindle_mode = "SPINDLE_CCW"]
      [] f = "cm_stop_spindle_turning"           -> [c EXCEPT !.spindle_mode = "SPINDLE_OFF"]
      [] f = "cm_dwell"              -> [c EXCEPT !.dwell_time = a[1]]
      [] f = "cm_select_plane"       -> [c EXCEPT !.select_plane = a[1]]
      [] f = "cm_set_inches_mode"    -> [c EXCEPT !.inches_mode = a[1]]
      [] f = "cm_set_absolute_mode"  -> [c EXCEPT !.absolute_mode = a[1]]
      [] f = "cm_return_to_home"     -> [c EXCEPT !.position = [x \in Axes |-> 0]]
      [] f = "cm_homing_cycle"       -> [c EXCEPT !.position = [x \in Axes |-> 0]]
      [] f = "cm_set_origin_offsets" ->
            [c EXCEPT !.position = [x \in Axes |->
                to_millimeters(c, x, a[1][CHOOSE n \in DOMAIN AxisSeq : AxisSeq[n] = x])]]
      [] f = "cm_straight_traverse"  -> Motion(c, a[1], "MOTION_MODE_STRAIGHT_TRAVERSE")
      [] f = "cm_straight_feed"      -> Motion(c, a[1], "MOTION_MODE_STRAIGHT_FEED")
      [] f = "cm_arc_feed"           -> Motion(c, a[1], a[4])

\* the non-OK status primitive f returns when it fails
CmError(f) ==
    CASE f \in {"cm_straight_traverse", "cm_straight_feed", "cm_dwell"} -> "TG_EAGAIN"
      [] f = "cm_arc_feed" -> "TG_ARC_SPECIFICATION_ERROR"
      [] OTHER -> "TG_INTERNAL_ERROR"

-----------------------------------------------------------------------------
(* _gc_execute_gcode_block *)

\* An execution state e = [cm, calls, done, ret]: the machine, the calls made
\* so far, whether the function has returned and with what.  A primitive
\* returns TG_OK or fails, so every step yields a set of execution states.

\* number of primitives that fail while one block executes
MaxFails == 2

\* the primitives a call trace names
Called(cs) == {cs[k].f : k \in DOMAIN cs}

\* the primitives that returned a non-OK status in a call trace
Failed(cs) == {cs[k].f : k \in {n \in DOMAIN cs : cs[n].ret # "TG_OK"}}

\* call primitive f with arguments a: it succeeds, or fails and leaves the
\* machine as it was
Invoke(e, f, a) ==
    {[e EXCEPT !.cm = CmEffect(f, a, @),
               !.calls = Append(@, [f |-> f, arg |-> a, ret |-> "TG_OK"])]}
    \cup
    (IF Cardinality(Failed(e.calls)) < MaxFails
     THEN {[e EXCEPT !.calls = Append(@, [f |-> f, arg |-> a, ret |-> CmError(f)])]}
     ELSE {})

LastRet(e) == e.calls[Len(e.calls)].ret

\* return(status) when the last call failed
ReturnIfFailed(e) ==
    IF LastRet(e) # "TG_OK" THEN [e EXCEPT !.done = TRUE, !.ret = LastRet(e)] ELSE e

CALL_CM_FUNC_ignore(e, f, flag, a) ==
    IF flag # 0 THEN Invoke(e, f, a) ELSE {e}

\* if((int)gf.v != 0) { if ((status = f(gn.v)) != TG_OK) { return(status); } }
CALL_CM_FUNC(e, f, flag, a) ==
    IF flag # 0 THEN {ReturnIfFailed(e1) : e1 \in Invoke(e, f, a)} ELSE {e}

\* util.h: if ((status = f) != TG_OK) { return(status); }
ritorno(e, f, a) == {ReturnIfFailed(e1) : e1 \in Invoke(e, f, a)}

\* (void)f(): the status is dropped
VoidCall(e, f, a) == Invoke(e, f, a)

\* f(...); return (status): the status of the call is dropped
ReturnCall_ok(e, f, a) ==
    {[e1 EXCEPT !.done = TRUE] : e1 \in Invoke(e, f, a)}

\* return (f(...))
ReturnCall(e, f, a) ==
    {[e1 EXCEPT !.done = TRUE, !.ret = LastRet(e1)] : e1 \in Invoke(e, f, a)}

TargetArg(n) == [k \in DOMAIN AxisSeq |-> n.target[AxisSeq[k]]]

IsMotion(n, modes) == n.next_action = "NEXT_ACTION_MOTION" /\ n.motion_mode \in modes

\* one statement of the function body
ExecStep(name, e, n, f) ==
    CASE name = "inverse_feed_rate_mode" ->
            CALL_CM_FUNC(e, "cm_set_inverse_feed_rate_mode", f.inverse_feed_rate_mode,
                         <<n.inverse_feed_rate_mode>>)
      [] name = "feed_rate" ->
            CALL_CM_FUNC(e, "cm_set_feed_rate", f.feed_rate, <<n.feed_rate>>)
      [] name = "spindle_speed" ->
            CALL_CM_FUNC(e, "cm_set_spindle_speed", f.spindle_speed, <<n.spindle_speed>>)
      [] name = "select_tool" ->
            CALL_CM_FUNC(e, "cm_select_tool", f.tool, <<n.tool>>)
      [] name = "change_tool" ->
            CALL_CM_FUNC(e, "cm_change_tool", f.tool, <<n.tool>>)
      [] name = "spindle" ->
            IF f.spindle_mode = 1
            THEN IF n.spindle_mode = "SPINDLE_CW"
                 THEN VoidCall(e, "cm_start_spindle_clockwise", <<>>)
                 ELSE IF n.spindle_mode = "SPINDLE_CCW"
                 THEN VoidCall(e, "cm_start_spindle_counterclockwise", <<>>)
                 ELSE VoidCall(e, "cm_stop_spindle_turning", <<>>)
            ELSE {e}
      [] name = "dwell" ->
            IF n.next_action = "NEXT_ACTION_DWELL"
            THEN ritorno(e, "cm_dwell", <<n.dwell_time>>) ELSE {e}
      [] name = "select_plane" ->
            CALL_CM_FUNC(e, "cm_select_plane", f.select_plane, <<n.select_plane>>)
      [] name = "inches_mode" ->
            IF f.inches_mode = 1
            THEN ReturnCall(e, "cm_set_inches_mode", <<n.inches_mode>>) ELSE {e}
      [] name = "absolute_mode" ->
            CALL_CM_FUNC(e, "cm_set_absolute_mode", f.absolute_mode, <<n.absolute_mode>>)
      [] name = "return_to_home" ->
            IF n.next_action = "NEXT_ACTION_RETURN_TO_HOME"
            THEN ritorno(e, "cm_return_to_home", <<>>) ELSE {e}
      [] name = "homing_cycle" ->
            IF n.next_action = "NEXT_ACTION_HOMING_CYCLE"
            THEN ritorno(e, "cm_homing_cycle", <<>>) ELSE {e}
      [] name = "origin_offsets" ->
            IF n.next_action = "NEXT_ACTION_OFFSET_COORDINATES"
            THEN ritorno(e, "cm_set_origin_offsets", <<TargetArg(n)>>) ELSE {e}
      [] name = "straight_traverse" ->
            IF IsMotion(n, {"MOTION_MODE_STRAIGHT_TRAVERSE"})
            THEN ReturnCall(e, "cm_straight_traverse", <<TargetArg(n)>>) ELSE {e}
      [] name = "straight_feed" ->
            IF IsMotion(n, {"MOTION_MODE_STRAIGHT_FEED"})
            THEN ReturnCall(e, "cm_straight_feed", <<TargetArg(n)>>) ELSE {e}
      [] name = "arc_feed" ->
            IF IsMotion(n, {"MOTION_MODE_CW_ARC", "MOTION_MODE_CCW_ARC"})
            THEN ReturnCall(e, "cm_arc_feed",
                            <<TargetArg(n), n.arc_offset, n.arc_radius, n.motion_mode>>)
            ELSE {e}

ExecOrder_spindle_first ==
    <<"spindle", "inverse_feed_rate_mode", "feed_rate", "spindle_speed",
      "select_tool", "change_tool", "dwell", "select_plane", "inches_mode",
      "absolute_mode", "return_to_home", "homing_cycle", "origin_offsets",
      "straight_traverse", "straight_feed", "arc_feed">>

\* the statements of the function body in their textual order
ExecOrder ==
    <<"inverse_feed_rate_mode", "feed_rate", "spindle_speed", "select_tool",
      "change_tool", "spindle", "dwell", "select_plane", "inches_mode",
      "absolute_mode", "return_to_home", "homing_cycle", "origin_offsets",
      "straight_traverse", "straight_feed", "arc_feed">>

\* the statements from the k-th on, for every execution that has not returned
RECURSIVE ExecFrom(_, _, _, _)
ExecFrom(k, E, n, f) ==
    IF k > Len(ExecOrder) THEN E
    ELSE ExecFrom(k + 1,
                  UNION {IF e.done THEN {e} ELSE ExecStep(ExecOrder[k], e, n, f) : e \in E},
                  n, f)

\* the executions of the block (n, f) on machine c
gc_execute_gcode_block(n, f, c) ==
    ExecFrom(1, {[cm |-> c, calls |-> <<>>, done |-> FALSE, ret |-> "TG_OK"]}, n, f)

-----------------------------------------------------------------------------
(* _gc_parse_gcode_block and gc_gcode_parser *)

\* gf.target[i] < EPSILON: the flags are 0 or 1, EPSILON lies between
FlagBelowEpsilon(flag) == flag < 1

FillTarget_inverted(n, f, c, ax) ==
    IF (n.absolute_mode = 1 \/ n.absolute_override = 1) /\ ~FlagBelowEpsilon(f.target[ax])
    THEN cm_get_position(c, ax) ELSE n.target[ax]

\* lines 315-319, for one axis
FillTarget(n, f, c, ax) ==
    IF (n.absolute_mode = 1 \/ n.absolute_override = 1) /\ FlagBelowEpsilon(f.target[ax])
    THEN cm_get_position(c, ax) ELSE n.target[ax]

\* lines 314-320
ResolveTargets(n, f, c) == [n EXCEPT !.target = [ax \in Axes |-> FillTarget(n, f, c, ax)]]

\* lines 223-230
PresetNextState(c) ==
    [gn |-> [ZERO_MODEL_STATE_gn EXCEPT !.next_action = cm_get_next_action(c),
                                        !.motion_mode = cm_get_motion_mode(c),
                                        !.absolute_mode = cm_get_absolute_mode(c)],
     gf |-> ZERO_MODEL_STATE_gf,
     cm |-> cm_set_absolute_override(c, 0),
     status |-> "TG_OK", i |-> 0, brk |-> FALSE]

\* Every outcome of parsing buf on machine c: gn, gf and cm after the
\* block, the status that ended statement extraction, the calls made and the
\* value returned.
gc_parse_gcode_block(buf, c) ==
    UNION {UNION {{[gn |-> n, gf |-> s.gf, cm |-> e.cm, parsed |-> s.status,
                    calls |-> e.calls, status |-> e.ret] :
                   e \in gc_execute_gcode_block(n, s.gf, s.cm)} :
                  n \in {ResolveTargets(s.gn, s.gf, s.cm)}} :
           s \in {StatementLoop(buf, PresetNextState(c))}}

\* every outcome of one call of gc_gcode_parser on buffer buf in state (n, f, c)
gc_gcode_parser(buf, n, f, c) ==
    UNION {UNION {IF At(nb.buf, 0) = NUL
                  THEN {[block |-> nb.buf, gn |-> n, gf |-> f, cm |-> c1,
                         parsed |-> "none", calls |-> <<>>, msgs |-> nb.msgs,
                         status |-> "TG_NOOP"]}
                  ELSE {[block |-> nb.buf, gn |-> r.gn, gf |-> r.gf, cm |-> r.cm,
                         parsed |-> r.parsed, calls |-> r.calls, msgs |-> nb.msgs,
                         status |-> r.status] : r \in gc_parse_gcode_block(nb.buf, c1)} :
                  c1 \in {IF nb.counted THEN [c EXCEPT !.linecount = @ + 1] ELSE c}} :
           nb \in {gc_normalize_gcode_block(buf)}}

-----------------------------------------------------------------------------
(* Input lines, as the caller hands them to gc_gcode_parser *)

\* G1 X10
L_G1X10 == <<"G", "1", " ", "X", "1", "0", NUL>>
\* G1 X10 Q5
L_G1X10Q5 == <<"G", "1", " ", "X", "1", "0", " ", "Q", "5", NUL>>
\* Q5
L_Q5 == <<"Q", "5", NUL>>
\* G99 X1
L_G99 == <<"G", "9", "9", " ", "X", "1", NUL>>
\* M3 M99
L_M99 == <<"M", "3", " ", "M", "9", "9", NUL>>
\* G1 X10 *
L_Star == <<"G", "1", " ", "X", "1", "0", " ", "*", NUL>>
\* G1 X
L_NoNum == <<"G", "1", " ", "X", NUL>>
\* G1 X10 G90 M3 F100
L_Order1 == <<"G", "1", " ", "X", "1", "0", " ", "G", "9", "0", " ", "M", "3", " ", "F", "1", "0", "0", NUL>>
\* F100 M3 G90 G1 X10
L_Order2 == <<"F", "1", "0", "0", " ", "M", "3", " ", "G", "9", "0", " ", "G", "1", " ", "X", "1", "0", NUL>>
\* X5 G0 G17 S1000 T2 G93 M4
L_Many == <<"X", "5", " ", "G", "0", " ", "G", "1", "7", " ", "S", "1", "0", "0", "0", " ", "T", "2", " ", "G", "9", "3", " ", "M", "4", NUL>>
\* P1 G4 F100
L_Dwell == <<"P", "1", " ", "G", "4", " ", "F", "1", "0", "0", NUL>>
\* G92 X3 Y0
L_Offset == <<"G", "9", "2", " ", "X", "3", " ", "Y", "0", NUL>>
\* G28
L_Home == <<"G", "2", "8", NUL>>
\* G30 G91
L_Homing == <<"G", "3", "0", " ", "G", "9", "1", NUL>>
\* G2 X10 Y0 I5 J0 F600 G17
L_Arc == <<"G", "2", " ", "X", "1", "0", " ", "Y", "0", " ", "I", "5", " ", "J", "0", " ", "F", "6", "0", "0", " ", "G", "1", "7", NUL>>
\* G91 G1 X5
L_Incr == <<"G", "9", "1", " ", "G", "1", " ", "X", "5", NUL>>
\* G90 G1 Y7
L_Abs == <<"G", "9", "0", " ", "G", "1", " ", "Y", "7", NUL>>
\* G53 G91 G0 X5
L_G53 == <<"G", "5", "3", " ", "G", "9", "1", " ", "G", "0", " ", "X", "5", NUL>>
\* X5
L_X5 == <<"X", "5", NUL>>
\* Y-2.5
L_Yneg == <<"Y", "-", "2", ".", "5", NUL>>
\* G91
L_G91 == <<"G", "9", "1", NUL>>
\* G61.1
L_G611 == <<"G", "6", "1", ".", "1", NUL>>
\* G61
L_G61 == <<"G", "6", "1", NUL>>
\* G64
L_G64 == <<"G", "6", "4", NUL>>
\* G92.1
L_G921 == <<"G", "9", "2", ".", "1", NUL>>
\* G92.1 X5
L_G921X == <<"G", "9", "2", ".", "1", " ", "X", "5", NUL>>
\* G20 G90 G1 X1 F10
L_S4 == <<"G", "2", "0", " ", "G", "9", "0", " ", "G", "1", " ", "X", "1", " ", "F", "1", "0", NUL>>
\* G91 X1
L_S4b == <<"G", "9", "1", " ", "X", "1", NUL>>
\* G20
L_G20 == <<"G", "2", "0", NUL>>
\* G21
L_G21 == <<"G", "2", "1", NUL>>
\*  g1  x10
L_Lower == <<" ", "g", "1", " ", " ", "x", "1", "0", NUL>>
\* g1<TAB>X1 0
L_TabLower == <<"g", "1", TAB, "X", "1", " ", "0", NUL>>
\* /G1 X10
L_Del == <<"/", "G", "1", " ", "X", "1", "0", NUL>>
\*  /G1 X10
L_SpDel == <<" ", "/", "G", "1", " ", "X", "1", "0", NUL>>
\* <TAB>/G1 X10
L_TabDel == <<TAB, "/", "G", "1", " ", "X", "1", "0", NUL>>
\* ?G1 X10
L_Query == <<"?", "G", "1", " ", "X", "1", "0", NUL>>
\*  ?G1 X10
L_SpQuery == <<" ", "?", "G", "1", " ", "X", "1", "0", NUL>>
\* G1 X10 (MSG Hi)
L_Msg == <<"G", "1", " ", "X", "1", "0", " ", "(", "M", "S", "G", " ", "H", "i", ")", NUL>>
\* (home)
L_Comment == <<"(", "h", "o", "m", "e", ")", NUL>>
\* (empty line)
L_Empty == <<NUL>>
\* x+1.5/*<=>|%#)[]{}
L_Punct == <<"x", "+", "1", ".", "5", "/", "*", "<", "=", ">", "|", "%", "#", ")", "[", "]", "{", "}", NUL>>
\* G1!$,;:?@^_~`'"<DEL><TAB> X2
L_Tossed == <<"G", "1", "!", "$", ",", ";", ":", "?", "@", "^", "_", "~", "`", "'", "\"", DEL, TAB, " ", "X", "2", NUL>>
\* g1&x3
L_Amp == <<"g", "1", "&", "x", "3", NUL>>

\* blocks that exercise statement extraction and execution
Lines ==
    {L_G1X10, L_G1X10Q5, L_Q5, L_G99, L_M99, L_Star, L_NoNum,
     L_Order1, L_Order2, L_Many, L_Dwell, L_Offset, L_Home, L_Homing,
     L_Arc, L_Incr, L_Abs, L_G53, L_X5, L_Yneg, L_G91,
     L_G611, L_G61, L_G64, L_G921, L_G921X, L_S4, L_S4b, L_G20, L_G21}

\* lines that exercise normalization: whitespace, letter case, block
\* delete, the query prefix and comments
TextLines ==
    {L_G1X10, L_Lower, L_TabLower, L_Del, L_SpDel, L_TabDel, L_Query,
     L_SpQuery, L_Msg, L_Comment, L_Empty, L_Incr, L_X5, L_G20, L_Yneg,
     L_Punct, L_Tossed, L_Amp}

\* number of blocks handed to the parser in one run
MaxBlocks == 2

-----------------------------------------------------------------------------
(* Motion planner, segment generator and step executor: the queues *)

\* Slots of the planner ring and of the segment queue, and the number of
\* moves the model enqueues.
PlannerSlots == 3

SegmentSlots == 2

MaxMoves == 3

BlockStates ==
    <<"EMPTY", "PLANNING", "READY", "ACTIVE">>
    \o <<"RUNNING_HEAD", "RUNNING_BODY", "RUNNING_TAIL", "COMPLETE">>

StateRank(st) == CHOOSE k \in DOMAIN BlockStates : BlockStates[k] = st

ActiveOrLater(b) == StateRank(b.state) >= StateRank("ACTIVE")

\* A planner block.  Velocities are squared velocities and length is
\* 2 * amax * L, so that entry_max = sqrt(exit^2 + 2 amax L) reads
\* entry <= exit + length.  head, body and tail count segments.
EmptyBlock ==
    [state |-> "EMPTY", id |-> 0, length |-> 0,
     entry |-> 0, cruise |-> 0, exit |-> 0,
     head |-> 0, body |-> 0, tail |-> 0]

EmptySegment == [id |-> 0, seq |-> 0, last |-> FALSE]

\* Ring indices are 1..n.
NextSlot(i, n) == (i % n) + 1

PrevSlot(i, n) == ((i + n - 2) % n) + 1

\* The queues after mp_init and st_init: every slot free.  w is the
\* producer's index, r the consumer's; head and tail count segments popped
\* and pushed.
MotionInit ==
    /\ mp = [ring |-> [i \in 1..PlannerSlots |-> EmptyBlock],
             w |-> 1, r |-> 1, n |-> 0]
    /\ sg = [cur |-> 0, seq |-> 0, left |-> 0, written |-> FALSE,
             generated |-> <<>>]
    /\ se = [ring |-> [i \in 1..SegmentSlots |-> EmptySegment],
             head |-> 0, tail |-> 0, executed |-> <<>>]

-----------------------------------------------------------------------------
(* The state machine *)

ParserInit ==
    /\ block = <<NUL>>
    /\ line = <<NUL>>
    /\ gn = ZERO_MODEL_STATE_gn
    /\ gf = ZERO_MODEL_STATE_gf
    /\ cm = cm_init
    /\ status = "TG_OK"
    /\ parsed = "none"
    /\ calls = <<>>
    /\ msgs = <<>>

\* The parser on its own: main() is not part of the behaviour.
Init ==
    /\ ParserInit
    /\ MotionInit
    /\ norm = NormIdle
    /\ pc = <<>>
    /\ trace = <<>>
    /\ sreg_I = 0
    /\ defines = {}

\* The controller hands one line to gc_gcode_parser.  Any of the primitives
\* the block invokes may fail.
ParseLine(input) ==
    /\ \E ln \in input :
         \E r \in gc_gcode_parser(ln, gn, gf, cm) :
            /\ line' = ln
            /\ block' = r.block
            /\ gn' = r.gn
            /\ gf' = r.gf
            /\ cm' = r.cm
            /\ status' = r.status
            /\ parsed' = r.parsed
            /\ calls' = r.calls
            /\ msgs' = r.msgs
    /\ UNCHANGED mainvars
    /\ UNCHANGED motionvars
    /\ UNCHANGED norm

\* The model follows the parser over MaxBlocks lines.
GcodeParser(input) ==
    /\ cm.linecount < MaxBlocks
    /\ ParseLine(input)

Next == GcodeParser(Lines)

Spec == Init /\ [][Next]_vars

NextText == GcodeParser(TextLines)

SpecText == Init /\ [][NextText]_vars

-----------------------------------------------------------------------------
(* Blocks with cutter-compensation, coolant and override words *)

\* the line made of the words ws, separated by single spaces
RECURSIVE JoinWords(_)
JoinWords(ws) ==
    IF ws = <<>> THEN <<NUL>>
    ELSE IF Len(ws) = 1 THEN ws[1] \o <<NUL>>
    ELSE ws[1] \o <<" ">> \o JoinWords(Tail(ws))

\* G40 G41 G42 G43 G49 M7 M8 M9 M48 M49
CompensationWords ==
    {<<"G", "4", "0">>, <<"G", "4", "1">>, <<"G", "4", "2">>, <<"G", "4", "3">>,
     <<"G", "4", "9">>, <<"M", "7">>, <<"M", "8">>, <<"M", "9">>,
     <<"M", "4", "8">>, <<"M", "4", "9">>}

\* G1 X10
FeedWords == <<(<<"G", "1">>), (<<"X", "1", "0">>)>>

\* ws with word w put in front of its k-th word (k = Len(ws) + 1: at the end)
InsertWord(ws, k, w) == SubSeq(ws, 1, k - 1) \o <<w>> \o SubSeq(ws, k, Len(ws))

\* G1 X10 alone and with one of the words at each place
CompensationBlocks ==
    {FeedWords} \cup
    {InsertWord(FeedWords, k, w) : k \in 1..(Len(FeedWords) + 1), w \in CompensationWords}

CompensationLines == {JoinWords(ws) : ws \in CompensationBlocks}

NextCompensation == GcodeParser(CompensationLines)

SpecCompensation == Init /\ [][NextCompensation]_vars

-----------------------------------------------------------------------------
(* Blocks with tool words *)

\* T2, M6, T2 M6, M6 T3, T1 G1 X10, M6 G1 X10, G1 X10, M3 T2 M6 S1000
ToolBlocks ==
    {<<(<<"T", "2">>)>>,
     <<(<<"M", "6">>)>>,
     <<(<<"T", "2">>), (<<"M", "6">>)>>,
     <<(<<"M", "6">>), (<<"T", "3">>)>>,
     <<(<<"T", "1">>), (<<"G", "1">>), (<<"X", "1", "0">>)>>,
     <<(<<"M", "6">>), (<<"G", "1">>), (<<"X", "1", "0">>)>>,
     FeedWords,
     <<(<<"M", "3">>), (<<"T", "2">>), (<<"M", "6">>), (<<"S", "1", "0", "0", "0">>)>>}

ToolLines == {JoinWords(ws) : ws \in ToolBlocks}

NextTool == GcodeParser(ToolLines)

SpecTool == Init /\ [][NextTool]_vars

-----------------------------------------------------------------------------
(* Blocks with program-flow words *)

\* M0 M1
PauseWords == {<<"M", "0">>, <<"M", "1">>}

\* M2 M30 M60
CompleteWords == {<<"M", "2">>, <<"M", "3", "0">>, <<"M", "6", "0">>}

\* G1 X10 and G91 G1 X5 alone, each stop word alone, and G1 X10 with a stop
\* word at each place
FlowBlocks ==
    {FeedWords, <<(<<"G", "9", "1">>), (<<"G", "1">>), (<<"X", "5">>)>>} \cup
    {<<w>> : w \in PauseWords \cup CompleteWords} \cup
    {InsertWord(FeedWords, k, w) :
        k \in 1..(Len(FeedWords) + 1), w \in PauseWords \cup CompleteWords}

FlowLines == {JoinWords(ws) : ws \in FlowBlocks}

NextFlow == GcodeParser(FlowLines)

SpecFlow == Init /\ [][NextFlow]_vars

-----------------------------------------------------------------------------
(* Lines with comments *)

\* G1 X10 (MSG Hi)
C_Msg == <<"G", "1", " ", "X", "1", "0", " ", "(", "M", "S", "G", " ", "H", "i", ")", NUL>>
\* (home)
C_Plain == <<"(", "h", "o", "m", "e", ")", NUL>>
\* G1 (c) X10
C_Embedded == <<"G", "1", " ", "(", "c", ")", " ", "X", "1", "0", NUL>>
\* G1 X10 (msg go) G0
C_LowerMsg == <<"G", "1", " ", "X", "1", "0", " ", "(", "m", "s", "g", " ", "g", "o", ")", " ", "G", "0", NUL>>
\* (MsG no paren
C_NoParen == <<"(", "M", "s", "G", " ", "n", "o", " ", "p", "a", "r", "e", "n", NUL>>
\* (MS
C_MS == <<"(", "M", "S", NUL>>
\* G91 G1 X5 (
C_Open == <<"G", "9", "1", " ", "G", "1", " ", "X", "5", " ", "(", NUL>>
\* ( MSG hi)
C_Space == <<"(", " ", "M", "S", "G", " ", "h", "i", ")", NUL>>
\* (MSGX)
C_MsgX == <<"(", "M", "S", "G", "X", ")", NUL>>
\* G1 X5 (MESSAGE)
C_Mess == <<"G", "1", " ", "X", "5", " ", "(", "M", "E", "S", "S", "A", "G", "E", ")", NUL>>
\* G0 X1 (MSG a) (MSG b)
C_Two == <<"G", "0", " ", "X", "1", " ", "(", "M", "S", "G", " ", "a", ")", " ", "(", "M", "S", "G", " ", "b", ")", NUL>>
\* /G1 (MSG Hi)
C_Deleted == <<"/", "G", "1", " ", "(", "M", "S", "G", " ", "H", "i", ")", NUL>>
\* G1 X10
C_None == <<"G", "1", " ", "X", "1", "0", NUL>>
\* ?(MSG Hi)
C_Query == <<"?", "(", "M", "S", "G", " ", "H", "i", ")", NUL>>

CommentLines ==
    {C_Msg, C_Plain, C_Embedded, C_LowerMsg, C_NoParen, C_MS, C_Open,
     C_Space, C_MsgX, C_Mess, C_Two, C_Deleted, C_None, C_Query}

NextComment == GcodeParser(CommentLines)

SpecComment == Init /\ [][NextComment]_vars

-----------------------------------------------------------------------------
(* main.c (firmware/tinyg_323.24): startup *)

\* Symbols that select code in main.c.  The text compiles with any subset.
ModeSymbols == {"__STANDALONE_MODE", "__MASTER_MODE", "__SLAVE_MODE"}

BuildSymbols == {"__DEBUG", "__UNIT_TESTS"} \cup ModeSymbols

\* #ifdef S ... #endif
Ifdef(d, S, text) == IF S \in d THEN text ELSE <<>>

\* The loop function of each mode.
LoopFunctions == {"tg_controller", "tg_repeater", "tg_receiver"}

\* for(;;){ f(); }
Forever(f) == <<"for(;;) " \o f>>

IsLoop(s) == \E f \in LoopFunctions : <<s>> = Forever(f)

LoopFunction(s) == CHOOSE f \in LoopFunctions : <<s>> = Forever(f)

\* The for(;;) loops follow each other, so the first one compiled in is the
\* only one that ever runs.  Without a mode symbol main() returns.
MainLoops(d) ==
    Ifdef(d, "__STANDALONE_MODE", Forever("tg_controller"))
    \o Ifdef(d, "__MASTER_MODE", Forever("tg_repeater"))
    \o Ifdef(d, "__SLAVE_MODE", Forever("tg_receiver"))

\* The startup calls of main() with the unit tests after application startup.
MainStartup_tests_last(d) ==
    <<"tg_system_init", "tg_application_init", "tg_application_startup">>
    \o Ifdef(d, "__UNIT_TESTS", <<"_tg_unit_tests">>)

\* The startup calls of main().  Without __UNIT_TESTS _tg_unit_tests() is an
\* empty macro.
MainStartup(d) ==
    <<"tg_system_init", "tg_application_init">>
    \o Ifdef(d, "__UNIT_TESTS", <<"_tg_unit_tests">>)
    \o <<"tg_application_startup">>

\* tg_application_init with interrupts enabled before the parser is
\* initialised and the interrupt levels are enabled.
ApplicationInit_sei_early ==
    <<"cli", "st_init", "sw_init", "mp_init", "sp_init">>
    \o <<"en_init", "sei", "gc_init">>
    \o <<"PMIC_SetVectorLocationToApplication">>
    \o <<"PMIC_EnableHighLevel", "PMIC_EnableMediumLevel">>
    \o <<"PMIC_EnableLowLevel", "tg_alive">>

\* The statements of tg_application_init.
ApplicationInit ==
    <<"cli", "st_init", "sw_init", "mp_init", "sp_init">>
    \o <<"en_init", "gc_init">>
    \o <<"PMIC_SetVectorLocationToApplication">>
    \o <<"PMIC_EnableHighLevel", "PMIC_EnableMediumLevel">>
    \o <<"PMIC_EnableLowLevel", "sei", "tg_alive">>

\* The statements of each function main.c defines, after preprocessing.
Body(fn, d) ==
    CASE fn = "main" -> MainStartup(d) \o MainLoops(d)
      [] fn = "tg_system_init" ->
            <<"cli">>
            \o Ifdef(d, "__DEBUG", <<"_tg_debug_init">>)
            \o <<"hw_init", "xio_init", "tg_init", "cfg_init">>
            \o <<"sig_init", "rtc_init", "sei">>
      [] fn = "tg_application_init" -> ApplicationInit
      [] fn = "_tg_unit_tests" -> <<"mp_unit_tests">>
      [] fn = "_tg_debug_init" -> <<"dbCONFIG_DEBUG_ENABLED">>

\* Functions whose body is in main.c.
Local == {"tg_system_init", "tg_application_init"}
         \cup {"_tg_unit_tests", "_tg_debug_init"}

\* How many times the model follows the for(;;) loop.
MaxLoops == 2

Top == pc[Len(pc)]

\* The statement the innermost frame is at, or "end" past the last one.
Statement ==
    IF Top.i > Len(Body(Top.fn, defines))
    THEN "end"
    ELSE Body(Top.fn, defines)[Top.i]

Event(f) == [f |-> f, in |-> Top.fn, I |-> sreg_I]

Advance == [pc EXCEPT ![Len(pc)].i = @ + 1]

LoopCalls(t) == {k \in DOMAIN t : t[k].f \in LoopFunctions}

\* Reset.  The interrupt flag is whatever the boot code left.
InitMain ==
    /\ ParserInit
    /\ MotionInit
    /\ norm = NormIdle
    /\ pc = <<[fn |-> "main", i |-> 1]>>
    /\ trace = <<>>
    /\ sreg_I \in {0, 1}
    /\ defines \in SUBSET BuildSymbols

\* A call of a function that main.c defines.
CallLocal ==
    /\ pc # <<>>
    /\ ~IsLoop(Statement)
    /\ Statement \in Local
    /\ trace' = Append(trace, Event(Statement))
    /\ pc' = Append(pc, [fn |-> Statement, i |-> 1])
    /\ UNCHANGED <<sreg_I, defines>>

\* A call of a function of another file, or the one assignment of
\* _tg_debug_init.
CallExtern ==
    /\ pc # <<>>
    /\ ~IsLoop(Statement)
    /\ Statement \notin Local \cup {"end", "cli", "sei"}
    /\ trace' = Append(trace, Event(Statement))
    /\ pc' = Advance
    /\ UNCHANGED <<sreg_I, defines>>

cli ==
    /\ pc # <<>>
    /\ ~IsLoop(Statement)
    /\ Statement = "cli"
    /\ trace' = Append(trace, Event("cli"))
    /\ sreg_I' = 0
    /\ pc' = Advance
    /\ UNCHANGED defines

sei ==
    /\ pc # <<>>
    /\ ~IsLoop(Statement)
    /\ Statement = "sei"
    /\ trace' = Append(trace, Event("sei"))
    /\ sreg_I' = 1
    /\ pc' = Advance
    /\ UNCHANGED defines

\* The end of a function: back to the caller's next statement.
Return ==
    /\ pc # <<>>
    /\ ~IsLoop(Statement)
    /\ Statement = "end"
    /\ pc' = IF Len(pc) = 1
             THEN <<>>
             ELSE [SubSeq(pc, 1, Len(pc) - 1) EXCEPT ![Len(pc) - 1].i = @ + 1]
    /\ UNCHANGED <<trace, sreg_I, defines>>

\* One turn of for(;;): the loop function is called and the loop repeats.
Loop ==
    /\ pc # <<>>
    /\ IsLoop(Statement)
    /\ Cardinality(LoopCalls(trace)) < MaxLoops
    /\ trace' = Append(trace, Event(LoopFunction(Statement)))
    /\ UNCHANGED <<pc, sreg_I, defines>>

ParserIdle ==
    /\ UNCHANGED <<block, line, gn, gf, cm, status, parsed, calls, msgs>>
    /\ UNCHANGED motionvars
    /\ UNCHANGED norm

NextMain ==
    \/ CallLocal /\ ParserIdle
    \/ CallExtern /\ ParserIdle
    \/ cli /\ ParserIdle
    \/ sei /\ ParserIdle
    \/ Return /\ ParserIdle
    \/ Loop /\ ParserIdle

SpecMain == InitMain /\ [][NextMain]_vars

-----------------------------------------------------------------------------
(* Motion planner, segment generator and step executor: the steps *)

Min(a, b) == IF a < b THEN a ELSE b

\* Phase split: a head when the block accelerates, a tail when it
\* decelerates, a body when head and tail leave length to cruise.
PhaseSplit(b) ==
    LET need == (b.cruise - b.entry) + (b.cruise - b.exit)
    IN  [b EXCEPT !.head = IF b.entry < b.cruise THEN 1 ELSE 0,
                  !.tail = IF b.exit < b.cruise THEN 1 ELSE 0,
                  !.body = IF need < b.length THEN 1 ELSE 0]

\* Re-planning walks through every block that is not ACTIVE.
Eligible_not_active(b) == b.state \notin {"EMPTY", "ACTIVE"}

\* Re-planning rule: only blocks in state READY are eligible.
Eligible(b) == b.state = "READY"

\* The slots of the eligible blocks that end at slot i, oldest first.
RECURSIVE Chain(_, _, _)
Chain(ring, i, n) ==
    IF n = 0 \/ ~Eligible(ring[i])
    THEN <<>>
    ELSE Append(Chain(ring, PrevSlot(i, Len(ring)), n - 1), i)

\* Backward pass over blocks bs from block k down: the exit is the
\* successor's entry e, and the entry is lowered to what the block can
\* decelerate from.
RECURSIVE BackwardPass(_, _, _)
BackwardPass(bs, k, e) ==
    IF k = 0
    THEN bs
    ELSE LET entry == Min(bs[k].entry, e + bs[k].length)
         IN  BackwardPass([bs EXCEPT ![k].exit = e, ![k].entry = entry],
                          k - 1, entry)

\* Forward pass from block k up: the exit is raised to what the block can
\* accelerate to, never above the successor's entry.
RECURSIVE ForwardPass(_, _)
ForwardPass(bs, k) ==
    IF k >= Len(bs)
    THEN bs
    ELSE LET exit == Min(bs[k].entry + bs[k].length, bs[k + 1].entry)
         IN  ForwardPass([bs EXCEPT ![k].exit = exit, ![k + 1].entry = exit],
                         k + 1)

\* Both passes and the phase split over the eligible blocks of the ring.
Recompute(ring, newest) ==
    LET ch == Chain(ring, newest, Len(ring))
        bs == [k \in DOMAIN ch |-> ring[ch[k]]]
        planned == ForwardPass(BackwardPass(bs, Len(bs), 0), 1)
    IN  [i \in DOMAIN ring |->
            IF \E k \in DOMAIN ch : ch[k] = i
            THEN PhaseSplit(planned[CHOOSE k \in DOMAIN ch : ch[k] = i])
            ELSE ring[i]]

Planning == \E i \in DOMAIN mp.ring : mp.ring[i].state = "PLANNING"

\* Producer: the canonical machine appends a block.  A full ring makes the
\* caller retry.
MpEnqueue(length, cruise) ==
    /\ mp.n < MaxMoves
    /\ ~Planning
    /\ mp.ring[mp.w].state = "EMPTY"
    /\ mp' = [mp EXCEPT !.n = @ + 1,
                        !.ring[mp.w] =
                            [EmptyBlock EXCEPT !.state = "PLANNING",
                                               !.id = mp.n + 1,
                                               !.length = length,
                                               !.cruise = cruise]]
    /\ UNCHANGED <<sg, se>>

\* Producer: per-block planning.  The entry is the junction velocity against
\* a predecessor that can still be re-planned, clamped to both cruise
\* velocities; otherwise the predecessor stops and the entry is 0.
MpPlan(junction) ==
    /\ mp.ring[mp.w].state = "PLANNING"
    /\ LET pred == mp.ring[PrevSlot(mp.w, PlannerSlots)]
           b == mp.ring[mp.w]
           entry == IF Eligible(pred)
                    THEN Min(junction, Min(pred.cruise, b.cruise))
                    ELSE 0
       IN  mp' = [mp EXCEPT !.w = NextSlot(@, PlannerSlots),
                            !.ring[mp.w] =
                                PhaseSplit([b EXCEPT !.state = "READY",
                                                     !.entry = entry,
                                                     !.exit = 0])]
    /\ UNCHANGED <<sg, se>>

\* Producer: planner recomputation.
MpReplan ==
    /\ ~Planning
    /\ \E i \in DOMAIN mp.ring : mp.ring[i].state = "READY"
    /\ mp' = [mp EXCEPT !.ring =
                 Recompute(mp.ring, PrevSlot(mp.w, PlannerSlots))]
    /\ UNCHANGED <<sg, se>>

\* Segment generator: fetch the next READY block.
SgFetch ==
    /\ sg.cur = 0
    /\ mp.ring[mp.r].state = "READY"
    /\ mp' = [mp EXCEPT !.ring[mp.r].state = "ACTIVE"]
    /\ sg' = [sg EXCEPT !.cur = mp.r, !.seq = 0, !.left = 0]
    /\ UNCHANGED se

\* The phase after a block state, and the segments it holds.
NextPhase(st) ==
    CASE st = "ACTIVE" -> "RUNNING_HEAD"
      [] st = "RUNNING_HEAD" -> "RUNNING_BODY"
      [] st = "RUNNING_BODY" -> "RUNNING_TAIL"
      [] st = "RUNNING_TAIL" -> "COMPLETE"

PhaseSegments(b, st) ==
    CASE st = "RUNNING_HEAD" -> b.head
      [] st = "RUNNING_BODY" -> b.body
      [] st = "RUNNING_TAIL" -> b.tail
      [] OTHER -> 0

\* Segment generator: head -> body -> tail -> complete.
SgAdvance ==
    /\ sg.cur # 0
    /\ sg.left = 0
    /\ ~sg.written
    /\ mp.ring[sg.cur].state \notin {"COMPLETE", "EMPTY"}
    /\ LET b == mp.ring[sg.cur]
           st == NextPhase(b.state)
       IN  /\ mp' = [mp EXCEPT !.ring[sg.cur].state = st]
           /\ sg' = [sg EXCEPT !.left = PhaseSegments(b, st)]
    /\ UNCHANGED se

Segments(b) == b.head + b.body + b.tail

SegmentSlot(k) == (k % SegmentSlots) + 1

\* The segment queue takes no segment while SegmentSlots are waiting.
SegmentQueueFull_late(q) == q.tail - q.head > SegmentSlots

SegmentQueueFull(q) == q.tail - q.head >= SegmentSlots

\* Segment generator: write the next segment into the free slot at the tail.
SgWrite ==
    /\ sg.cur # 0
    /\ sg.left > 0
    /\ ~sg.written
    /\ ~SegmentQueueFull(se)
    /\ LET b == mp.ring[sg.cur]
           seg == [id |-> b.id, seq |-> sg.seq + 1,
                   last |-> sg.seq + 1 = Segments(b)]
       IN  /\ se' = [se EXCEPT !.ring[SegmentSlot(se.tail)] = seg]
           /\ sg' = [sg EXCEPT !.written = TRUE,
                               !.generated = Append(@, seg)]
    /\ UNCHANGED mp

\* Segment generator: publish the segment by advancing the tail.
SgPublish ==
    /\ sg.written
    /\ se' = [se EXCEPT !.tail = @ + 1]
    /\ sg' = [sg EXCEPT !.written = FALSE, !.seq = @ + 1, !.left = @ - 1]
    /\ UNCHANGED mp

\* Segment generator: the block is complete, its slot is released.
SgRelease ==
    /\ sg.cur # 0
    /\ mp.ring[sg.cur].state = "COMPLETE"
    /\ mp' = [mp EXCEPT !.ring[sg.cur] = EmptyBlock,
                        !.r = NextSlot(@, PlannerSlots)]
    /\ sg' = [sg EXCEPT !.cur = 0]
    /\ UNCHANGED se

\* Step ISR: pop the head segment and step it out.  With an empty queue it
\* emits nothing.
StepIsr ==
    /\ se.head < se.tail
    /\ se' = [se EXCEPT !.head = @ + 1,
                        !.executed = Append(@, se.ring[SegmentSlot(se.head)])]
    /\ UNCHANGED <<mp, sg>>

Lengths == {1, 2}

Cruises == {2}

Junctions == {0, 2}

Producer ==
    \/ \E length \in Lengths : \E cruise \in Cruises : MpEnqueue(length, cruise)
    \/ \E junction \in Junctions : MpPlan(junction)
    \/ MpReplan

Consumer == SgFetch \/ SgAdvance \/ SgWrite \/ SgPublish \/ SgRelease

MotionIdle ==
    /\ UNCHANGED <<block, line, gn, gf, cm, status, parsed, calls, msgs>>
    /\ UNCHANGED mainvars
    /\ UNCHANGED norm

Enqueue == \E length \in Lengths : \E cruise \in Cruises : MpEnqueue(length, cruise)

Plan == \E junction \in Junctions : MpPlan(junction)

NextMotion ==
    \/ Enqueue /\ MotionIdle
    \/ Plan /\ MotionIdle
    \/ MpReplan /\ MotionIdle
    \/ SgFetch /\ MotionIdle
    \/ SgAdvance /\ MotionIdle
    \/ SgWrite /\ MotionIdle
    \/ SgPublish /\ MotionIdle
    \/ SgRelease /\ MotionIdle
    \/ StepIsr /\ MotionIdle

SpecMotion == Init /\ [][NextMotion]_vars

-----------------------------------------------------------------------------
(* Blocks that rely on what persists from earlier blocks *)

\* G1 X10, G0 X3, G80, X5, Y-2.5, F100, M3, G17
L_G0X3 == <<"G", "0", " ", "X", "3", NUL>>

L_G80 == <<"G", "8", "0", NUL>>

L_F100 == <<"F", "1", "0", "0", NUL>>

L_M3 == <<"M", "3", NUL>>

L_G17 == <<"G", "1", "7", NUL>>

\* blocks of axis words only
AxisOnlyLines == {L_X5, L_Yneg}

\* blocks with neither a motion word nor an axis word
SettingLines == {L_F100, L_M3, L_G17}

ModalLines == {L_G1X10, L_G0X3, L_G80} \cup AxisOnlyLines \cup SettingLines

\* The model follows these blocks over MaxModalBlocks lines.
MaxModalBlocks == 3

NextModal ==
    /\ cm.linecount < MaxModalBlocks
    /\ ParseLine(ModalLines)

SpecModal == Init /\ [][NextModal]_vars

-----------------------------------------------------------------------------
(* Blocks with a non-motion action word and a motion word *)

\* G4 P1, G28, G30, G92
ActionWords ==
    {<<(<<"G", "4">>), (<<"P", "1">>)>>, <<(<<"G", "2", "8">>)>>,
     <<(<<"G", "3", "0">>)>>, <<(<<"G", "9", "2">>)>>}

\* G0 X3, G1 X10
MoveWords ==
    {<<(<<"G", "0">>), (<<"X", "3">>)>>, FeedWords}

\* an action in front of a move and behind it
ActionBlocks ==
    {a \o m : a \in ActionWords, m \in MoveWords}
    \cup {m \o a : a \in ActionWords, m \in MoveWords}

ActionLines == {JoinWords(ws) : ws \in ActionBlocks}

NextAction == GcodeParser(ActionLines)

SpecAction == Init /\ [][NextAction]_vars

-----------------------------------------------------------------------------
(* _gc_normalize_gcode_block, statement by statement, on long blocks *)

Repeat(c, n) == [k \in 1..n |-> c]

\* Blocks of 255 characters: all kept, all tossed, a parenthesis as the
\* last character, a message that ends the block; and a block of 254.
LongLines ==
    {Repeat("*", Uint8Range - 1) \o <<NUL>>,
     Repeat(" ", Uint8Range - 1) \o <<NUL>>,
     Repeat("x", Uint8Range - 2) \o <<"(", NUL>>,
     Repeat(" ", Uint8Range - 6) \o <<"(", "m", "s", "g", ")", NUL>>,
     Repeat("g", Uint8Range - 2) \o <<NUL>>}

NormalizeLines ==
    LongLines \cup {L_G1X10, L_Lower, L_Del, L_SpDel, L_Query, L_Msg, L_Comment}
              \cup {L_Empty, L_Punct, L_Tossed}

\* The caller has handed a block to the function.
InitNormalize ==
    /\ ParserInit
    /\ MotionInit
    /\ pc = <<>>
    /\ trace = <<>>
    /\ sreg_I = 0
    /\ defines = {}
    /\ norm = NormIdle

NormalizeIdle ==
    /\ UNCHANGED <<gn, gf, status, parsed, calls>>
    /\ UNCHANGED mainvars
    /\ UNCHANGED motionvars

\* The call: i = 0, j = 0, comment = 0.
NormCall ==
    /\ norm.pc = "idle"
    /\ \E ln \in NormalizeLines :
          /\ line' = ln
          /\ block' = ln
    /\ norm' = [pc |-> "start", i |-> 0, j |-> 0, comment |-> -1]
    /\ msgs' = <<>>
    /\ UNCHANGED cm

\* lines 137-143
NormStart ==
    /\ norm.pc = "start"
    /\ block' = IF At(block, 0) = "/" THEN Put(block, 0, NUL) ELSE block
    /\ norm' = [norm EXCEPT !.pc = IF At(block, 0) \in {"/", "?"}
                                  THEN "done"
                                  ELSE "loop"]
    /\ UNCHANGED <<line, msgs, cm>>

\* lines 145-160: one evaluation of the loop condition and body
NormIterate ==
    /\ norm.pc = "loop"
    /\ \E r \in {NormStep([buf |-> block, i |-> norm.i, j |-> norm.j,
                          comment |-> norm.comment, stop |-> FALSE])} :
          /\ block' = r.buf
          /\ norm' = [pc |-> IF r.stop THEN "terminate" ELSE "loop",
                      i |-> r.i, j |-> r.j, comment |-> r.comment]
    /\ UNCHANGED <<line, msgs, cm>>

\* line 161
NormTerminate ==
    /\ norm.pc = "terminate"
    /\ block' = Put(block, norm.j, NUL)
    /\ norm' = [norm EXCEPT !.pc = IF norm.comment # -1
                                     /\ IsMsg(block', norm.comment)
                                  THEN "message"
                                  ELSE "count"]
    /\ UNCHANGED <<line, msgs, cm>>

\* lines 166-172: the offset in the comment of its first ')' or NUL
CommentEnd(buf, k) ==
    CHOOSE n \in 0..(Len(buf) - 1 - k) :
        /\ At(buf, k + n) \in {")", NUL}
        /\ \A m \in 0..(n - 1) : At(buf, k + m) \notin {")", NUL}

\* lines 166-173: i is used again, as an index into the comment; it is
\* left on the ')' that was overwritten, or one past the NUL
NormMessage ==
    /\ norm.pc = "message"
    /\ block' = CutParen(block, norm.comment)
    /\ msgs' = <<CStr(block', norm.comment + 3)>>
    /\ \E n \in {CommentEnd(block, norm.comment)} :
          norm' = [norm EXCEPT !.pc = "count",
                               !.i = IF At(block, norm.comment + n) = ")"
                                     THEN n
                                     ELSE Inc8(n)]
    /\ UNCHANGED <<line, cm>>

\* line 176
NormCount ==
    /\ norm.pc = "count"
    /\ cm' = [cm EXCEPT !.linecount = @ + 1]
    /\ norm' = [norm EXCEPT !.pc = "done"]
    /\ UNCHANGED <<line, block, msgs>>

NextNormalize ==
    \/ NormCall /\ NormalizeIdle
    \/ NormStart /\ NormalizeIdle
    \/ NormIterate /\ NormalizeIdle
    \/ NormTerminate /\ NormalizeIdle
    \/ NormMessage /\ NormalizeIdle
    \/ NormCount /\ NormalizeIdle

\* The function is sequential code: once called it runs on.
SpecNormalize ==
    InitNormalize /\ [][NextNormalize]_vars /\ WF_vars(NextNormalize)

-----------------------------------------------------------------------------
(* Properties *)

\* the statuses with which statement extraction fails
ParseErrors ==
    {"TG_UNRECOGNIZED_COMMAND", "TG_EXPECTED_COMMAND_LETTER", "TG_BAD_NUMBER_FORMAT"}

\* the machine without the parser's line counters
MachineState(c) == [k \in (DOMAIN c) \ {"linenum", "linecount"} |-> c[k]]

\* C1: when statement extraction of a block fails, gc_gcode_parser returns
\* the status of that failure (unrecognized command, expected command
\* letter or bad number format) to its caller.
C1_ParseFailureStatusReturned ==
    parsed \in ParseErrors => status = parsed

\* C2: a block whose statement extraction fails invokes no canonical-machine
\* primitive and leaves the canonical machine as it was before the block.
C2_ParseErrorNoSideEffects ==
    [][parsed' \in ParseErrors =>
          calls' = <<>> /\ MachineState(cm') = MachineState(cm)]_vars

\* position of a primitive in RS-274/NGC table 8
Table8Rank(f) ==
    CASE f = "cm_set_inverse_feed_rate_mode" -> 1
      [] f = "cm_set_feed_rate" -> 2
      [] f = "cm_set_spindle_speed" -> 3
      [] f = "cm_select_tool" -> 4
      [] f = "cm_change_tool" -> 5
      [] f \in {"cm_start_spindle_clockwise", "cm_start_spindle_counterclockwise",
                "cm_stop_spindle_turning"} -> 6
      [] f = "cm_dwell" -> 7
      [] f = "cm_select_plane" -> 8
      [] f = "cm_set_inches_mode" -> 9
      [] f = "cm_set_absolute_mode" -> 10
      [] f \in {"cm_return_to_home", "cm_homing_cycle", "cm_set_origin_offsets"} -> 11
      [] f \in {"cm_straight_traverse", "cm_straight_feed", "cm_arc_feed"} -> 12

\* C3: the primitives a block invokes are invoked in table-8 order (feed-rate
\* mode, feed rate, spindle speed, tool select, tool change, spindle, dwell,
\* plane, units, distance mode, home / homing / offsets, motion), whatever
\* the order of the words in the block.
C3_Table8Order ==
    \A i, j \in DOMAIN calls :
        i < j => Table8Rank(calls[i].f) <= Table8Rank(calls[j].f)

\* a block whose words are not in table-8 order has made seven calls
C3_Witness == line = L_Many /\ Len(calls) = 7

SpindleCalls ==
    {"cm_start_spindle_clockwise", "cm_start_spindle_counterclockwise",
     "cm_stop_spindle_turning"}

\* the primitives whose status the source tests itself, through CALL_CM_FUNC
\* or a return statement
CheckedCalls ==
    {"cm_set_inverse_feed_rate_mode", "cm_set_feed_rate", "cm_set_spindle_speed",
     "cm_select_tool", "cm_change_tool", "cm_select_plane", "cm_set_inches_mode",
     "cm_set_absolute_mode", "cm_straight_traverse", "cm_straight_feed",
     "cm_arc_feed"}

Extracted(ln, c) ==
    StatementLoop(gc_normalize_gcode_block(ln).buf, PresetNextState(c))

\* the distance mode of an extracted block is absolute: G90 in the block, or
\* the machine's mode when the block has neither G90 nor G91
BlockAbsolute(p, c) ==
    IF p.gf.absolute_mode = 1 THEN p.gn.absolute_mode = 1 ELSE c.absolute_mode = 1

\* the target C5 expects for axis ax
ExpectedTarget(p, c, ax) ==
    IF p.gf.target[ax] = 1 THEN p.gn.target[ax]
    ELSE IF BlockAbsolute(p, c) \/ p.gf.absolute_override = 1
         THEN cm_get_position(c, ax)
         ELSE 0

\* C5: after a block is parsed, for each axis: an axis with a word keeps the
\* word's value; an axis without a word has the machine position as target
\* when the block's distance mode is absolute or the block has G53, and 0 in
\* incremental mode without G53.
C5_TargetResolution ==
    [][parsed' # "none" =>
          \E p \in {Extracted(line', cm)} :
              \A ax \in Axes : gn'.target[ax] = ExpectedTarget(p, cm, ax)]_vars

\* an absolute block with a Y word only, read at X = 5: X is filled from the
\* position and Y keeps its word
C5_Witness ==
    /\ line = L_Abs
    /\ parsed = "TG_COMPLETE"
    /\ gn.target["X"] = 5 * Scale
    /\ gn.target["Y"] = 7 * Scale
    /\ gf.target["X"] = 0

\* C6: G61.1 sets the next path control to exact stop, with its flag set;
\* G61 sets exact path and G64 continuous.
C6_PathControl ==
    /\ line = L_G611 => gn.path_control = "PATH_EXACT_STOP" /\ gf.path_control = 1
    /\ line = L_G61 => gn.path_control = "PATH_EXACT_PATH" /\ gf.path_control = 1
    /\ line = L_G64 => gn.path_control = "PATH_CONTINUOUS" /\ gf.path_control = 1

\* C7: when a block with G92.1 invokes cm_set_origin_offsets, every axis of
\* gn.target is 0 with its flag set, and the words after G92.1 were parsed.
C7_G921ZerosTargets ==
    /\ line \in {L_G921, L_G921X} => parsed = "TG_COMPLETE"
    /\ line = L_G921 /\ "cm_set_origin_offsets" \in Called(calls) =>
          \A ax \in Axes : gn.target[ax] = 0 /\ gf.target[ax] = 1

\* one inch in hundredths of a millimetre
Inch == to_millimeters([inches_mode |-> 1], "X", Scale)

\* C8: with no primitive failing, G20 G90 G1 X1 F10 leaves the machine in
\* inches and absolute mode and has invoked a straight feed to X = 1 inch;
\* a following G91 X1 invokes a straight feed that adds one inch.
C8_UnitsDistanceMotionInOneBlock ==
    [][/\ line' = L_S4 /\ Failed(calls') = {} =>
            /\ cm'.inches_mode = 1
            /\ cm'.absolute_mode = 1
            /\ "cm_straight_feed" \in Called(calls')
            /\ cm'.position["X"] = Inch
       /\ line = L_S4 /\ Failed(calls) = {} /\ line' = L_S4b /\ Failed(calls') = {} =>
            /\ "cm_straight_feed" \in Called(calls')
            /\ cm'.position["X"] = cm.position["X"] + Inch]_vars

\* the line without its spaces and tabs and with its letters in upper case,
\* comments left as they are: two lines that differ only in whitespace and
\* letter case outside comments have the same canonical text
RECURSIVE Canon(_, _, _)
Canon(buf, i, inComment) ==
    IF At(buf, i) = NUL THEN <<>>
    ELSE IF inComment
         THEN <<At(buf, i)>> \o Canon(buf, i + 1, At(buf, i) # ")")
    ELSE IF At(buf, i) \in {" ", TAB} THEN Canon(buf, i + 1, FALSE)
    ELSE <<toupper(At(buf, i))>> \o Canon(buf, i + 1, At(buf, i) = "(")

\* two parser results agree in status, gn, gf and the primitives invoked
\* with their arguments
SameOutput(a, b) ==
    /\ a.status = b.status
    /\ a.gn = b.gn
    /\ a.gf = b.gf
    /\ Len(a.calls) = Len(b.calls)
    /\ \A k \in DOMAIN a.calls :
          a.calls[k].f = b.calls[k].f /\ a.calls[k].arg = b.calls[k].arg

\* C9: two lines that differ only in spaces, tabs and the case of letters
\* outside comments, parsed from the same state with no primitive failing,
\* give the same status, the same gn and gf and the same primitive calls.
C9_WhitespaceCaseIndependent ==
    [][Failed(calls') = {} =>
          \A l2 \in TextLines :
              Canon(l2, 0, FALSE) = Canon(line', 0, FALSE) =>
                  \E r \in gc_gcode_parser(l2, gn, gf, cm) :
                      /\ Failed(r.calls) = {}
                      /\ SameOutput(r, [status |-> status', gn |-> gn', gf |-> gf',
                                        calls |-> calls'])]_vars

\* the first character of the line that is neither a space nor a tab
RECURSIVE FirstNonWs(_, _)
FirstNonWs(buf, i) ==
    IF At(buf, i) \in {" ", TAB} THEN FirstNonWs(buf, i + 1) ELSE At(buf, i)

\* C10: for a line whose first non-whitespace character is '/',
\* gc_gcode_parser returns TG_NOOP and leaves gn, gf and the canonical
\* machine unchanged, also when spaces or tabs precede the '/'.
C10_BlockDelete ==
    [][FirstNonWs(line', 0) = "/" =>
          /\ status' = "TG_NOOP"
          /\ gn' = gn
          /\ gf' = gf
          /\ MachineState(cm') = MachineState(cm)]_vars

\* the characters C11 lists as dropped: whitespace and control characters,
\* DEL and the invalid punctuation
C11Dropped == {" ", TAB, DEL, "!", "$", ",", ";", ":", "?", "@", "^", "_", "~", "`", "'", "\""}

\* the command C11 expects: the characters before the first '(' that are
\* not dropped, in input order and uppercased
RECURSIVE ExpectedCommand(_, _)
ExpectedCommand(buf, i) ==
    IF At(buf, i) \in {NUL, "("} THEN <<>>
    ELSE IF At(buf, i) \in C11Dropped THEN ExpectedCommand(buf, i + 1)
    ELSE <<toupper(At(buf, i))>> \o ExpectedCommand(buf, i + 1)

\* C11: after normalization the command is the line's characters before the
\* first '(' without the dropped ones (whitespace, DEL, control characters
\* and ! $ , ; : ? @ ^ _ ~ ` ' "), in input order and uppercased; '%' and
\* the other listed punctuation are kept.  Stated for the lines that are
\* normalized as blocks: those that start with neither '/' nor '?'.
C11_NormalizationKeepsAndDrops ==
    At(line, 0) \notin {"/", "?"} => CStr(block, 0) = ExpectedCommand(line, 0)

\* ws without the words C12 lists as ignored
WithoutCompensation(ws) == SelectSeq(ws, LAMBDA w : w \notin CompensationWords)

\* C12: a block with one of G40 G41 G42 G43 G49 M7 M8 M9 M48 M49 gives, with
\* no primitive failing, the same status, gn, gf and primitive calls as the
\* block without that word parsed from the same state, wherever the word
\* stands.
C12_CompensationWordsIgnored ==
    [][Failed(calls') = {} =>
          \A ws \in CompensationBlocks :
              line' = JoinWords(ws) =>
                  \E r \in gc_gcode_parser(JoinWords(WithoutCompensation(ws)), gn, gf, cm) :
                      /\ Failed(r.calls) = {}
                      /\ SameOutput(r, [status |-> status', gn |-> gn', gf |-> gf',
                                        calls |-> calls'])]_vars

\* C13: a block that was parsed to its end, with no primitive failing,
\* invokes cm_change_tool exactly when it contains M6 (gf.change_tool set),
\* with or without a T word.
C13_ChangeToolOnM6 ==
    parsed = "TG_COMPLETE" /\ Failed(calls) = {} =>
        ("cm_change_tool" \in Called(calls) <=> gf.change_tool = 1)

\* block ws has a word of W
HasWord(ws, W) == \E k \in DOMAIN ws : ws[k] \in W

\* C14: after a block with M0 or M1 has executed with no primitive failing
\* the machine's program flow is paused, after one with M2, M30 or M60 it is
\* completed; a motion word of the same block has been executed as well.
C14_StopAfterBlock ==
    \A ws \in FlowBlocks :
        line = JoinWords(ws) /\ Failed(calls) = {} =>
            /\ HasWord(ws, PauseWords) => cm.program_flow = "PROGRAM_FLOW_PAUSED"
            /\ HasWord(ws, CompleteWords) => cm.program_flow = "PROGRAM_FLOW_COMPLETED"
            /\ HasWord(ws, {<<"G", "1">>}) => "cm_straight_feed" \in Called(calls)

\* index of the first '(' of the line from i on, or of its terminator
RECURSIVE FirstParen(_, _)
FirstParen(buf, i) ==
    IF At(buf, i) \in {NUL, "("} THEN i ELSE FirstParen(buf, i + 1)

\* the line cut before its first '('
BeforeComment(buf) == SubSeq(buf, 1, FirstParen(buf, 0)) \o <<NUL>>

\* the characters from index i up to the first ')' or the end of the line
RECURSIVE UpToParen(_, _)
UpToParen(buf, i) ==
    IF At(buf, i) \in {NUL, ")"} THEN <<>> ELSE <<At(buf, i)>> \o UpToParen(buf, i + 1)

\* the messages C15 expects for a line: one when the three characters after
\* the first '(' are M, S, G in any case, none otherwise
ExpectedMessages(buf) ==
    LET p == FirstParen(buf, 0) IN
    IF /\ At(buf, p) = "("
       /\ toupper(At(buf, p + 1)) = "M"
       /\ toupper(At(buf, p + 2)) = "S"
       /\ toupper(At(buf, p + 3)) = "G"
    THEN <<UpToParen(buf, p + 4)>>
    ELSE <<>>

\* C15 as stated, for every line: the messages sent are one with the text
\* after MSG up to the first ')' or the end of the line when the first '('
\* is followed by MSG in any case, and none otherwise; and with no primitive
\* failing the status, gn, gf and primitive calls are those of the line cut
\* before its first '('.
C15_CommentsOfAnyLine ==
    [][/\ msgs' = ExpectedMessages(line')
       /\ Failed(calls') = {} =>
             \E r \in gc_gcode_parser(BeforeComment(line'), gn, gf, cm) :
                 /\ Failed(r.calls) = {}
                 /\ SameOutput(r, [status |-> status', gn |-> gn', gf |-> gf',
                                   calls |-> calls'])]_vars

\* C15: for a line that is normalized as a block (it starts with neither
\* '/' nor '?'): the messages sent are one with the text after MSG up to the
\* first ')' or the end of the line when the first '(' is followed by MSG in
\* any case, and none otherwise; and with no primitive failing the status,
\* gn, gf and primitive calls are those of the line cut before its first
\* '(', so nothing after it is parsed.
C15_Comments ==
    [][At(line', 0) \notin {"/", "?"} =>
          /\ msgs' = ExpectedMessages(line')
          /\ Failed(calls') = {} =>
                \E r \in gc_gcode_parser(BeforeComment(line'), gn, gf, cm) :
                    /\ Failed(r.calls) = {}
                    /\ SameOutput(r, [status |-> status', gn |-> gn', gf |-> gf',
                                      calls |-> calls'])]_vars

\* G1 X10 (msg go) G0 has sent " go" and invoked a straight feed
C15_Witness ==
    /\ line = C_LowerMsg
    /\ msgs = <<(<<" ", "g", "o">>)>>
    /\ Len(calls) = 1
    /\ calls[1].f = "cm_straight_feed"

\* C16: a line that starts with '?' invokes no canonical-machine primitive
\* and leaves gn, gf and the machine's absolute override as they were.
C16_QueryIsNotABlock ==
    [][At(line', 0) = "?" =>
          /\ calls' = <<>>
          /\ gn' = gn
          /\ gf' = gf
          /\ cm'.absolute_override = cm.absolute_override]_vars

\* C17: when the block G53 G91 G0 X5 invokes its motion primitive the
\* machine's absolute override is on, and after a block without G53 it is
\* off.  The motion primitive is the last thing a block does, so the
\* override at that moment is the override after the block.
C17_G53ThisBlockOnly ==
    [][/\ line' = L_G53 /\ Failed(calls') = {} =>
             /\ "cm_straight_traverse" \in Called(calls')
             /\ cm'.absolute_override = 1
       /\ line' # L_G53 => cm'.absolute_override = 0]_vars

\* C18: the startup levels are entered in the order system init,
\* application init, unit tests (only with __UNIT_TESTS), application
\* startup, each once and all of them before the first call of the loop
\* function; tg_alive is the last call of tg_application_init and is made
\* with interrupts enabled, right after sei.
LevelOrder ==
    <<"tg_system_init", "tg_application_init">>
    \o <<"_tg_unit_tests", "tg_application_startup">>

Levels == {LevelOrder[k] : k \in DOMAIN LevelOrder}

Enabled(f, d) == f # "_tg_unit_tests" \/ "__UNIT_TESTS" \in d

ExpectedLevels(d) == SelectSeq(LevelOrder, LAMBDA f : Enabled(f, d))

LevelsOf(t) == SelectSeq(t, LAMBDA e : e.f \in Levels)

Names(t) == [k \in DOMAIN t |-> t[k].f]

IsPrefix(a, b) == Len(a) <= Len(b) /\ a = SubSeq(b, 1, Len(a))

C18_StartupOrder ==
    /\ IsPrefix(Names(LevelsOf(trace)), ExpectedLevels(defines))
    /\ "_tg_unit_tests" \in Called(trace) => "__UNIT_TESTS" \in defines
    /\ \A k \in LoopCalls(trace) :
          /\ Names(LevelsOf(SubSeq(trace, 1, k - 1))) = ExpectedLevels(defines)
          /\ "__UNIT_TESTS" \in defines => "_tg_unit_tests" \in Called(trace)
    /\ \A k \in DOMAIN trace :
          trace[k].f = "tg_alive" =>
             /\ trace[k].in = "tg_application_init"
             /\ trace[k].I = 1
             /\ trace[k - 1].f = "sei"
             /\ \A j \in DOMAIN trace :
                   j > k => trace[j].in # "tg_application_init"
    /\ \A k \in DOMAIN trace :
          trace[k].f \in {"_tg_unit_tests", "tg_application_startup"} =>
             \E j \in 1..(k - 1) : trace[j].f = "tg_alive"

C18_Witness ==
    /\ Cardinality(LoopCalls(trace)) = 2
    /\ "__UNIT_TESTS" \in defines
    /\ "tg_alive" \in Called(trace)

\* C19: the step ISR drains the segments in the order the segment
\* generator made them, none skipped and none twice; the generator makes the
\* segments of the blocks in enqueue order, each block's segments 1, 2, ...
\* up to its last before the first segment of the next block; and a block
\* that has left the planner ring has had its last segment generated.
InOrder(t) ==
    \A k \in DOMAIN t :
       IF k = 1
       THEN t[k].id = 1 /\ t[k].seq = 1
       ELSE IF t[k - 1].last
            THEN t[k].id = t[k - 1].id + 1 /\ t[k].seq = 1
            ELSE t[k].id = t[k - 1].id /\ t[k].seq = t[k - 1].seq + 1

InRing(id) == \E i \in DOMAIN mp.ring : mp.ring[i].id = id

Finished(id) == \E k \in DOMAIN sg.generated :
                   sg.generated[k].id = id /\ sg.generated[k].last

C19_ExecutionOrder ==
    /\ IsPrefix(se.executed, sg.generated)
    /\ InOrder(sg.generated)
    /\ \A id \in 1..mp.n : InRing(id) \/ Finished(id)

C19_Witness ==
    /\ \E k \in DOMAIN se.executed : se.executed[k].seq = 2
    /\ \E k \in DOMAIN se.executed : se.executed[k].id = 2
    /\ se.tail - se.head = 2

\* C20: a step of the segment generator changes nothing of a READY block
\* but its state, which becomes ACTIVE when the generator fetches it; a step
\* of the producer changes no block that is ACTIVE or later; re-planning
\* changes only READY blocks; and the entry velocity of a block that is
\* ACTIVE or later stays as it is.
PlanOf(b) == [b EXCEPT !.state = "any"]

C20_Ownership ==
    [][\A i \in DOMAIN mp.ring :
          /\ Consumer /\ mp.ring[i].state = "READY" =>
                /\ PlanOf(mp'.ring[i]) = PlanOf(mp.ring[i])
                /\ mp'.ring[i].state \in {"READY", "ACTIVE"}
          /\ Producer /\ ActiveOrLater(mp.ring[i]) =>
                mp'.ring[i] = mp.ring[i]
          /\ MpReplan /\ mp'.ring[i] # mp.ring[i] =>
                mp.ring[i].state = "READY"
          /\ ActiveOrLater(mp.ring[i]) /\ mp'.ring[i].id = mp.ring[i].id =>
                mp'.ring[i].entry = mp.ring[i].entry]_vars

\* A block that is ACTIVE or later, never re-planned together with its
\* successor (its exit is 0, the successor's entry is not), and the
\* successor READY with its exit raised: the re-planning that raised it ran
\* after the first block had become ACTIVE.
C20_Witness ==
    \E i, j \in DOMAIN mp.ring :
       /\ ActiveOrLater(mp.ring[i])
       /\ mp.ring[j].state = "READY"
       /\ mp.ring[j].id = mp.ring[i].id + 1
       /\ mp.ring[i].exit = 0
       /\ mp.ring[j].entry > 0
       /\ mp.ring[j].exit > 0

\* the primitives that enqueue a straight move
MoveCalls == {"cm_straight_traverse", "cm_straight_feed"}

RECURSIVE WordsOf(_, _)
WordsOf(buf, i) ==
    UNION {IF st.status # "TG_OK"
           THEN {}
           ELSE {<<st.letter, Uint8(st.value)>>} \cup WordsOf(buf, st.i) :
           st \in {get_next_statement(buf, i)}}

\* the gn fields of C22 that are not indexed
ScalarFields ==
    {"feed_rate", "spindle_speed", "tool", "dwell_time", "arc_radius",
     "select_plane", "inches_mode", "absolute_mode", "absolute_override",
     "path_control", "spindle_mode", "change_tool", "program_flow",
     "inverse_feed_rate_mode"}

\* the words that set a scalar field, by the spec's word tables
LetterOf(field) ==
    CASE field = "feed_rate" -> "F"
      [] field = "spindle_speed" -> "S"
      [] field = "tool" -> "T"
      [] field = "dwell_time" -> "P"
      [] field = "arc_radius" -> "R"
      [] field \in {"spindle_mode", "change_tool", "program_flow"} -> "M"
      [] OTHER -> "G"

NumbersOf(field) ==
    CASE field = "select_plane" -> {17, 18, 19}
      [] field = "inches_mode" -> {20, 21}
      [] field = "absolute_mode" -> {90, 91}
      [] field = "absolute_override" -> {53}
      [] field = "path_control" -> {61, 64}
      [] field = "inverse_feed_rate_mode" -> {93, 94}
      [] field = "spindle_mode" -> {3, 4, 5}
      [] field = "change_tool" -> {6}
      [] field = "program_flow" -> {0, 1, 2, 30, 60}
      [] OTHER -> 0..255

HasWordFor(ws, field) ==
    \E w \in ws : w[1] = LetterOf(field) /\ w[2] \in NumbersOf(field)

HasLetter(ws, letter) == \E w \in ws : w[1] = letter

OffsetLetters == <<"I", "J", "K">>

\* the flags of block ws are those of its words, and a field without a word
\* holds the zero of ZERO_MODEL_STATE (absolute_mode is preset)
FlagsMatchWords(ws) ==
    /\ \A field \in ScalarFields :
          /\ gf[field] # 0 <=> HasWordFor(ws, field)
          /\ gf[field] = 0 /\ field # "absolute_mode" =>
                gn[field] = ZERO_MODEL_STATE_gn[field]
    /\ \A ax \in Axes : gf.target[ax] # 0 <=> HasLetter(ws, ax)
    /\ \A k \in 0..2 :
          /\ gf.arc_offset[k] # 0 <=> HasLetter(ws, OffsetLetters[k + 1])
          /\ gf.arc_offset[k] = 0 => gn.arc_offset[k] = 0

\* C22: whenever _gc_execute_gcode_block has run, every listed gf flag is
\* non-zero exactly when the block holds a word that sets its field, and a
\* field without a flag holds no value of an earlier block.
C22_PresenceFlags ==
    parsed # "none" => FlagsMatchWords(WordsOf(block, 0))

\* the same for the blocks whose statement extraction ran to the end
C22_PresenceFlagsOfParsedBlocks ==
    parsed = "TG_COMPLETE" => FlagsMatchWords(WordsOf(block, 0))

\* the primitives that perform motion
MotionCalls == MoveCalls \cup {"cm_arc_feed"}

\* C23: when the machine reports next action MOTION with mode STRAIGHT_FEED,
\* a block of axis words only invokes cm_straight_feed with the block's
\* resolved target; and the axis-only block that follows a G80 block invokes
\* no motion primitive.
C23_ModalMotion ==
    [][line' \in AxisOnlyLines =>
          /\ cm.next_action = "NEXT_ACTION_MOTION"
                /\ cm.motion_mode = "MOTION_MODE_STRAIGHT_FEED" =>
                /\ Len(calls') = 1
                /\ calls'[1].f = "cm_straight_feed"
                /\ calls'[1].arg = <<TargetArg(gn')>>
          /\ line = L_G80 /\ status = "TG_OK" =>
                Called(calls') \cap MotionCalls = {}]_vars

\* C24: a block with neither a motion word nor an axis word invokes no
\* motion primitive, whatever the machine holds from earlier blocks.
C24_NoMotionWithoutMotionWords ==
    line \in SettingLines => Called(calls) \cap MotionCalls = {}

\* the primitives of the non-motion actions G4, G28, G30 and G92
ActionCalls ==
    {"cm_dwell", "cm_return_to_home", "cm_homing_cycle", "cm_set_origin_offsets"}

\* C25: a block with a non-motion action word and a motion word, parsed to
\* the end with no primitive failing, invokes the action's primitive and
\* after it the motion primitive, in either order of the two words.
C25_ActionThenMotion ==
    line \in ActionLines /\ parsed = "TG_COMPLETE" /\ Failed(calls) = {} =>
        \E i, j \in DOMAIN calls :
            /\ i < j
            /\ calls[i].f \in ActionCalls
            /\ calls[j].f \in MotionCalls

\* C26: G20 G90 G1 X1 F10, parsed in millimetre mode with no primitive
\* failing, leaves the machine with a feed rate of 254 mm/min.
C26_FeedRateInBlockUnits ==
    [][line' = L_S4 /\ cm.inches_mode = 0 /\ Failed(calls') = {} =>
          cm'.feed_rate = 254 * Scale]_vars

\* the subsystem inits of tg_system_init and of tg_application_init
SystemInits ==
    {"_tg_debug_init", "hw_init", "xio_init", "tg_init"}
    \cup {"cfg_init", "sig_init", "rtc_init"}

ApplicationInits ==
    {"st_init", "sw_init", "mp_init", "sp_init", "en_init", "gc_init"}

InterruptLevels ==
    {"PMIC_EnableHighLevel", "PMIC_EnableMediumLevel", "PMIC_EnableLowLevel"}

Before(t, k) == Called(SubSeq(t, 1, k - 1))

\* C27: every subsystem init is called with the interrupt flag clear, after
\* the cli of its function; cfg_init is called after xio_init; and when
\* tg_application_init sets the flag again, the six application inits have
\* been called and the three interrupt levels enabled.
C27_InitsWithInterruptsOff ==
    \A k \in DOMAIN trace :
       /\ trace[k].f \in SystemInits \cup ApplicationInits =>
             /\ trace[k].I = 0
             /\ \E j \in 1..(k - 1) :
                   /\ trace[j].f = "cli"
                   /\ trace[j].in = trace[k].in
                   /\ \A m \in j..k : trace[m].f # "sei"
       /\ trace[k].f = "cfg_init" => "xio_init" \in Before(trace, k)
       /\ trace[k].f = "sei" /\ trace[k].in = "tg_application_init" =>
             ApplicationInits \cup InterruptLevels \subseteq Before(trace, k)

\* a debug build past the sei of tg_application_init
C27_Witness ==
    /\ "__DEBUG" \in defines
    /\ "tg_alive" \in Called(trace)
    /\ sreg_I = 1

\* the statements of a buffer from index i on, in order, up to and with the
\* status that ends statement extraction
RECURSIVE StatementsOf(_, _)
StatementsOf(buf, i) ==
    With(get_next_statement(buf, i), LAMBDA st :
        IF st.status # "TG_OK"
        THEN <<[letter |-> "end", value |-> 0, status |-> st.status]>>
        ELSE <<[letter |-> st.letter, value |-> st.value, status |-> "TG_OK"]>>
             \o StatementsOf(buf, st.i))

\* normalizing the normalized buffer b of line ln changes nothing, and the
\* buffer holds the same statements before and after
Renormalized(ln, b) ==
    \E nb \in {gc_normalize_gcode_block(b)} :
        /\ nb.buf = b
        /\ StatementsOf(nb.buf, 0) = StatementsOf(b, 0)

\* C28: the buffer gc_gcode_parser leaves behind is unchanged by another
\* normalization and then holds the same statements.
C28_NormalizationIdempotent ==
    Renormalized(line, block)

\* the same for the lines whose first character other than space and tab
\* is not '/'
C28_IdempotentWithoutBlockDelete ==
    FirstNonWs(line, 0) # "/" => Renormalized(line, block)

\* the step-by-step run ends with the buffer, the message and the count of
\* gc_normalize_gcode_block
NormalizeAgrees ==
    norm.pc = "done" =>
        \E nb \in {gc_normalize_gcode_block(line)} :
            /\ block = nb.buf
            /\ msgs = nb.msgs
            /\ cm.linecount = IF nb.counted THEN 1 ELSE 0

\* C29 as stated: up to line 161 the 8-bit write index never exceeds the
\* 8-bit read index.
C29_WriteIndexBelowReadIndex ==
    norm.pc \in {"loop", "terminate"} => norm.j <= norm.i

\* the index of the character read last: i has been incremented past it
LastRead == (norm.i + Uint8Range - 1) % Uint8Range

\* the index of the first NUL of a buffer
strlen(buf) ==
    CHOOSE k \in 0..(Len(buf) - 1) :
        /\ At(buf, k) = NUL
        /\ \A m \in 0..(k - 1) : At(buf, m) # NUL

InputLength == strlen(line)

\* the write index is at most the read index while the loop runs, and at
\* most the index of the character read last once the loop is left; no
\* write goes past the terminator, and the command is no longer than the
\* input
C29_Indices ==
    /\ norm.pc = "loop" => norm.j <= norm.i /\ norm.i <= InputLength
    /\ norm.pc = "terminate" => norm.j <= LastRead /\ LastRead <= InputLength
    /\ norm.pc = "done" => strlen(block) <= InputLength

\* C29: for every block of at most 255 characters the function returns,
\* and its indices stay as C29_Indices says.
C29_NormalizeIsSafe ==
    /\ []C29_Indices
    /\ [](norm.pc = "start" => <>(norm.pc = "done"))

\* the loop has been left on the terminator of a 255-character block of
\* kept characters: i has wrapped to 0 and j is 255
C29_Witness ==
    /\ norm.pc = "terminate"
    /\ norm.i = 0
    /\ norm.j = Uint8Range - 1

\* as stated, for blocks shorter than 255 characters: the read index does
\* not wrap
C29_WriteIndexBelowReadIndexShort ==
    InputLength < Uint8Range - 1 /\ norm.pc \in {"loop", "terminate"} =>
        norm.j <= norm.i

====
